---------------------------- MODULE Spec2Model ----------------------------
(***************************************************************************)
(* Model of the composite health-scoring engine of                         *)
(* src/scientific_health_assessment.js (class ScientificHealthAssessment   *)
(* and its sub-models), of its twin ProfessionalHealthAssessment and the   *)
(* chat proxy (src/unnamed/part_000), of the chat modal, of the series     *)
(* preparation of src/professional_visualization.js, and of the chart      *)
(* registry and timeline playback of src/unnamed/part_001.                 *)
(*                                                                         *)
(* Number encoding.  JavaScript numbers are modelled by integers in fixed  *)
(* decimal units:                                                          *)
(*   - scores and weights are in hundredths (0.35 is 35, 1.0 is 100);      *)
(*   - temperatures and the perfusion index are in tenths (37.2 is 372,    *)
(*     0.5 is 5);                                                          *)
(*   - systolic, diastolic, pulse, SpO2 percent are whole numbers.         *)
(* A field that is missing (JavaScript undefined) is the value Undefined;  *)
(* every comparison with it is false, as a comparison with NaN is.         *)
(* A missing string is the string Undef.                                   *)
(*                                                                         *)
(* Arithmetic is exact.  The source computes in IEEE doubles, whose sums   *)
(* and quotients can fall one unit in the last place beside a decimal      *)
(* value (0.5 - 0.2 - 0.1 is 0.19999999999999998), so a composite score    *)
(* that is exactly on a grade threshold or exactly on a rounding half can  *)
(* be graded or rounded to the other side by the source.                   *)
(***************************************************************************)
EXTENDS Integers, Sequences, FiniteSets, TLC

VARIABLES
    healthData, \* the reading the caller passes to generateComprehensiveAssessment
    weights,    \* ParameterCustomization.settings.weights of the assessment object
    report,     \* the report returned by the last generateComprehensiveAssessment call
    call,       \* the last direct call of one classifier: its name, argument and result
    requests,         \* the POST /api/chat requests of the proxy (src/unnamed/part_000)
    currentChatModal, \* the chat modal shown, Null when none is
    chatBoxes,        \* the chat box of every modal created, in order of creation
    sends,            \* the sendMessage calls: where each is in its body, what it did
    chartInstances,   \* the chart registry of src/unnamed/part_001: key -> Chart
    charts,           \* every Chart constructed, with its canvas and whether it lives
    fullscreenClose,  \* the chart captured by the onclick of the fullscreen close button
    playbackState,    \* isPlaying, currentIndex, interval, speed
    reportDays,       \* the report period in days
    timers            \* the interval timers that are active in the page

assessVars == <<healthData, weights, report, call>>
proxyVars == <<requests>>
chatVars == <<currentChatModal, chatBoxes, sends>>
chartVars == <<chartInstances, charts, fullscreenClose>>
playbackVars == <<playbackState, reportDays, timers>>
uiVars == <<proxyVars, chatVars, chartVars, playbackVars>>

vars == <<healthData, weights, report, call, requests, currentChatModal, chatBoxes,
          sends, chartInstances, charts, fullscreenClose, playbackState, reportDays,
          timers>>

---------------------------------------------------------------------------
(* Bounds of the classifier inputs. *)
MaxSystolic == 200
MaxDiastolic == 130
MaxPulse == 140
MaxTempTenths == 400
MaxPercent == 100
MaxPiTenths == 25
MaxScore == 100

---------------------------------------------------------------------------
(* JavaScript values *)

Undefined == 0 - 1
Undef == "undefined"

IsNum(x) == x # Undefined
\* !x for a number or undefined: undefined and 0 are falsy
Falsy(x) == x = Undefined \/ x = 0
\* a || b
OrElse(a, b) == IF Falsy(a) THEN b ELSE a
Ge(a, b) == IsNum(a) /\ IsNum(b) /\ a >= b
Gt(a, b) == IsNum(a) /\ IsNum(b) /\ a > b
Lt(a, b) == IsNum(a) /\ IsNum(b) /\ a < b
Abs(x) == IF x < 0 THEN 0 - x ELSE x
Min(a, b) == IF a < b THEN a ELSE b
Max(a, b) == IF a > b THEN a ELSE b

(* An absent substructure of the reading (healthData.bloodPressure is undefined). *)
NoBloodPressure == [present |-> FALSE, systolic |-> Undefined, diastolic |-> Undefined,
                    pulse |-> Undefined]
NoSpO2 == [present |-> FALSE, percent |-> Undefined, pi |-> Undefined, pr |-> Undefined]
NoTemperature == [present |-> FALSE, value |-> Undefined, location |-> Undef]

\* healthData.bloodPressure?.pulse || healthData.spO2?.pr
pulseOf(hd) == OrElse(hd.bloodPressure.pulse, hd.spO2.pr)

---------------------------------------------------------------------------
(* ScientificHealthAssessment: the four classifiers *)

NoDataResult == [status |-> "no_data", category |-> Undef, riskLevel |-> Undef]

\* the 'and' rule: a stage needs both values over its thresholds
assessBloodPressureBothValues(bpData) ==
    IF ~bpData.present THEN NoDataResult
    ELSE IF Ge(bpData.systolic, 180) /\ Ge(bpData.diastolic, 110)
         THEN [status |-> Undef, category |-> "stage3_hypertension", riskLevel |-> "very_high"]
    ELSE IF Ge(bpData.systolic, 160) /\ Ge(bpData.diastolic, 100)
         THEN [status |-> Undef, category |-> "stage2_hypertension", riskLevel |-> "high"]
    ELSE IF Ge(bpData.systolic, 140) /\ Ge(bpData.diastolic, 90)
         THEN [status |-> Undef, category |-> "stage1_hypertension", riskLevel |-> "moderate"]
    ELSE IF Ge(bpData.systolic, 130) /\ Ge(bpData.diastolic, 85)
         THEN [status |-> Undef, category |-> "high_normal", riskLevel |-> "low_moderate"]
    ELSE [status |-> Undef, category |-> "normal", riskLevel |-> "low"]

\* the stage 2 branch tested before the stage 3 branch, which it then shadows
assessBloodPressureShadowed(bpData) ==
    IF ~bpData.present THEN NoDataResult
    ELSE IF Ge(bpData.systolic, 160) \/ Ge(bpData.diastolic, 100)
         THEN [status |-> Undef, category |-> "stage2_hypertension", riskLevel |-> "high"]
    ELSE IF Ge(bpData.systolic, 180) \/ Ge(bpData.diastolic, 110)
         THEN [status |-> Undef, category |-> "stage3_hypertension", riskLevel |-> "very_high"]
    ELSE IF Ge(bpData.systolic, 140) \/ Ge(bpData.diastolic, 90)
         THEN [status |-> Undef, category |-> "stage1_hypertension", riskLevel |-> "moderate"]
    ELSE IF Ge(bpData.systolic, 130) \/ Ge(bpData.diastolic, 85)
         THEN [status |-> Undef, category |-> "high_normal", riskLevel |-> "low_moderate"]
    ELSE [status |-> Undef, category |-> "normal", riskLevel |-> "low"]

assessBloodPressure(bpData) ==
    IF ~bpData.present THEN NoDataResult
    ELSE IF Ge(bpData.systolic, 180) \/ Ge(bpData.diastolic, 110)
         THEN [status |-> Undef, category |-> "stage3_hypertension", riskLevel |-> "very_high"]
    ELSE IF Ge(bpData.systolic, 160) \/ Ge(bpData.diastolic, 100)
         THEN [status |-> Undef, category |-> "stage2_hypertension", riskLevel |-> "high"]
    ELSE IF Ge(bpData.systolic, 140) \/ Ge(bpData.diastolic, 90)
         THEN [status |-> Undef, category |-> "stage1_hypertension", riskLevel |-> "moderate"]
    ELSE IF Ge(bpData.systolic, 130) \/ Ge(bpData.diastolic, 85)
         THEN [status |-> Undef, category |-> "high_normal", riskLevel |-> "low_moderate"]
    ELSE [status |-> Undef, category |-> "normal", riskLevel |-> "low"]

assessBloodOxygen(spo2Data) ==
    IF ~spo2Data.present THEN NoDataResult
    ELSE IF Lt(spo2Data.percent, 90)
         THEN [status |-> Undef, category |-> "severe_hypoxemia", riskLevel |-> "very_high"]
    ELSE IF Lt(spo2Data.percent, 95)
         THEN [status |-> Undef, category |-> "mild_hypoxemia", riskLevel |-> "moderate"]
    ELSE [status |-> Undef, category |-> "normal", riskLevel |-> "low"]

\* normalRanges[location] || normalRanges['腋下'], in tenths of a degree
normalRanges(location) ==
    CASE location = "axillary" -> [min |-> 360, max |-> 372]
      [] location = "oral"     -> [min |-> 363, max |-> 372]
      [] location = "rectal"   -> [min |-> 366, max |-> 376]
      [] location = "ear"      -> [min |-> 361, max |-> 371]
      [] location = "forehead" -> [min |-> 358, max |-> 370]
      [] OTHER                 -> [min |-> 360, max |-> 372]

\* the comparisons inclusive (>= and <=) instead of strict
assessTemperatureInclusive(tempData) ==
    IF ~tempData.present THEN NoDataResult
    ELSE LET range == normalRanges(tempData.location)
             value == tempData.value
         IN IF Ge(value, range.max + 5)
            THEN [status |-> Undef, category |-> "high_fever", riskLevel |-> "high"]
            ELSE IF Ge(value, range.max)
            THEN [status |-> Undef, category |-> "fever", riskLevel |-> "moderate"]
            ELSE IF Ge(range.min - 5, value)
            THEN [status |-> Undef, category |-> "hypothermia", riskLevel |-> "high"]
            ELSE IF Ge(range.min, value)
            THEN [status |-> Undef, category |-> "low_normal", riskLevel |-> "low_moderate"]
            ELSE [status |-> Undef, category |-> "normal", riskLevel |-> "low"]

\* the high-fever and hypothermia margin 1.0 instead of 0.5
assessTemperatureWideMargin(tempData) ==
    IF ~tempData.present THEN NoDataResult
    ELSE LET range == normalRanges(tempData.location)
             value == tempData.value
         IN IF Gt(value, range.max + 10)
            THEN [status |-> Undef, category |-> "high_fever", riskLevel |-> "high"]
            ELSE IF Gt(value, range.max)
            THEN [status |-> Undef, category |-> "fever", riskLevel |-> "moderate"]
            ELSE IF Lt(value, range.min - 10)
            THEN [status |-> Undef, category |-> "hypothermia", riskLevel |-> "high"]
            ELSE IF Lt(value, range.min)
            THEN [status |-> Undef, category |-> "low_normal", riskLevel |-> "low_moderate"]
            ELSE [status |-> Undef, category |-> "normal", riskLevel |-> "low"]

assessTemperature(tempData) ==
    IF ~tempData.present THEN NoDataResult
    ELSE LET range == normalRanges(tempData.location)
             value == tempData.value
         IN IF Gt(value, range.max + 5)
            THEN [status |-> Undef, category |-> "high_fever", riskLevel |-> "high"]
            ELSE IF Gt(value, range.max)
            THEN [status |-> Undef, category |-> "fever", riskLevel |-> "moderate"]
            ELSE IF Lt(value, range.min - 5)
            THEN [status |-> Undef, category |-> "hypothermia", riskLevel |-> "high"]
            ELSE IF Lt(value, range.min)
            THEN [status |-> Undef, category |-> "low_normal", riskLevel |-> "low_moderate"]
            ELSE [status |-> Undef, category |-> "normal", riskLevel |-> "low"]

\* the third branch (pulseData > 120) follows the branch pulseData > 100 in the source
assessPulse(pulseData) ==
    IF Falsy(pulseData) THEN NoDataResult
    ELSE IF Lt(pulseData, 50)
         THEN [status |-> Undef, category |-> "bradycardia", riskLevel |-> "moderate"]
    ELSE IF Gt(pulseData, 100)
         THEN [status |-> Undef, category |-> "tachycardia", riskLevel |-> "moderate"]
    ELSE IF Gt(pulseData, 120)
         THEN [status |-> Undef, category |-> "severe_tachycardia", riskLevel |-> "high"]
    ELSE [status |-> Undef, category |-> "normal", riskLevel |-> "low"]

assessBasicVitalSigns(hd) ==
    [bloodPressure |-> assessBloodPressure(hd.bloodPressure),
     bloodOxygen   |-> assessBloodOxygen(hd.spO2),
     temperature   |-> assessTemperature(hd.temperature),
     pulse         |-> assessPulse(pulseOf(hd))]

---------------------------------------------------------------------------
(* BloodPressureStabilityModel *)

Clamp01(score) == Max(0, Min(100, score))

\* cv = |systolic - diastolic| / ((systolic + diastolic) / 2), compared with 0.1 and 0.2;
\* a division by zero or an undefined field gives Infinity or NaN, for which both
\* comparisons are false
BPS_calculateStability(bpData) ==
    LET s == bpData.systolic
        d == bpData.diastolic
    IN IF ~(IsNum(s) /\ IsNum(d)) \/ s + d <= 0 THEN "unstable"
       ELSE IF 20 * Abs(s - d) < s + d THEN "stable"
       ELSE IF 10 * Abs(s - d) < s + d THEN "moderate"
       ELSE "unstable"

\* variability = cv * 100, compared with 10 and 20
BPS_calculateVariability(bpData) ==
    LET s == bpData.systolic
        d == bpData.diastolic
    IN IF ~(IsNum(s) /\ IsNum(d)) \/ s + d <= 0 THEN "high"
       ELSE IF 20 * Abs(s - d) < s + d THEN "low"
       ELSE IF 10 * Abs(s - d) < s + d THEN "moderate"
       ELSE "high"

\* the variability adjustment left out
BPS_calculateStabilityScoreStabilityOnly(stability, variability) ==
    Clamp01(50
            + (IF stability = "stable" THEN 30
               ELSE IF stability = "moderate" THEN 10 ELSE 0 - 20))

BPS_calculateStabilityScore(stability, variability) ==
    Clamp01(50
            + (IF stability = "stable" THEN 30
               ELSE IF stability = "moderate" THEN 10 ELSE 0 - 20)
            + (IF variability = "low" THEN 20
               ELSE IF variability = "moderate" THEN 10 ELSE 0 - 10))

BPS_assess(hd) ==
    IF ~hd.bloodPressure.present
    THEN [status |-> "no_data", score |-> 0, stability |-> Undef, variability |-> Undef]
    ELSE LET stability == BPS_calculateStability(hd.bloodPressure)
             variability == BPS_calculateVariability(hd.bloodPressure)
         IN [status |-> Undef,
             score |-> BPS_calculateStabilityScore(stability, variability),
             stability |-> stability, variability |-> variability]

---------------------------------------------------------------------------
(* BloodOxygenPerfusionModel *)

BOP_calculatePerfusion(spo2Data) ==
    IF Lt(spo2Data.pi, 5) THEN "poor"
    ELSE IF Lt(spo2Data.pi, 10) THEN "fair"
    ELSE IF Lt(spo2Data.pi, 20) THEN "good"
    ELSE "excellent"

\* efficiency = percent / 100, compared with 0.95 and 0.90
BOP_calculateEfficiency(spo2Data) ==
    IF Ge(spo2Data.percent, 95) THEN "excellent"
    ELSE IF Ge(spo2Data.percent, 90) THEN "good"
    ELSE "poor"

BOP_calculatePerfusionScore(perfusion, efficiency) ==
    Clamp01(50
            + (IF perfusion = "excellent" THEN 30
               ELSE IF perfusion = "good" THEN 20
               ELSE IF perfusion = "fair" THEN 10 ELSE 0 - 20)
            + (IF efficiency = "excellent" THEN 20
               ELSE IF efficiency = "good" THEN 10 ELSE 0 - 10))

BOP_assess(hd) ==
    IF ~hd.spO2.present
    THEN [status |-> "no_data", score |-> 0, perfusion |-> Undef, efficiency |-> Undef]
    ELSE LET perfusion == BOP_calculatePerfusion(hd.spO2)
             efficiency == BOP_calculateEfficiency(hd.spO2)
         IN [status |-> Undef,
             score |-> BOP_calculatePerfusionScore(perfusion, efficiency),
             perfusion |-> perfusion, efficiency |-> efficiency]

---------------------------------------------------------------------------
(* TemperaturePulseSynergyModel *)

NoClass == [category |-> Undef, riskLevel |-> Undef, score |-> Undefined]

TPS_assessTemperature(tempData) ==
    LET range == normalRanges(tempData.location)
        value == tempData.value
    IN IF Gt(value, range.max + 5)
       THEN [category |-> "high_fever", riskLevel |-> "high", score |-> 20]
       ELSE IF Gt(value, range.max)
       THEN [category |-> "fever", riskLevel |-> "moderate", score |-> 40]
       ELSE IF Lt(value, range.min - 5)
       THEN [category |-> "hypothermia", riskLevel |-> "high", score |-> 20]
       ELSE IF Lt(value, range.min)
       THEN [category |-> "low_normal", riskLevel |-> "low_moderate", score |-> 60]
       ELSE [category |-> "normal", riskLevel |-> "low", score |-> 100]

TPS_assessPulse(pulseData) ==
    IF Lt(pulseData, 50)
    THEN [category |-> "bradycardia", riskLevel |-> "moderate", score |-> 40]
    ELSE IF Gt(pulseData, 120)
    THEN [category |-> "severe_tachycardia", riskLevel |-> "high", score |-> 20]
    ELSE IF Gt(pulseData, 100)
    THEN [category |-> "tachycardia", riskLevel |-> "moderate", score |-> 60]
    ELSE [category |-> "normal", riskLevel |-> "low", score |-> 100]

riskLevelToNumber(riskLevel) ==
    CASE riskLevel = "low"          -> 20
      [] riskLevel = "low_moderate" -> 40
      [] riskLevel = "moderate"     -> 60
      [] riskLevel = "high"         -> 80
      [] riskLevel = "very_high"    -> 100
      [] OTHER                      -> 50

analyzeCorrelation(temperature, pulse) ==
    IF temperature.category = "fever" /\ pulse.category = "tachycardia"
    THEN "positive_correlation"
    ELSE IF temperature.category = "hypothermia" /\ pulse.category = "bradycardia"
    THEN "positive_correlation"
    ELSE "no_significant_correlation"

\* synergyScore = (tempRisk + pulseRisk) / 2, compared with 0.3 and 0.6
calculateSynergy(temperature, pulse) ==
    LET twice == riskLevelToNumber(temperature.riskLevel)
                 + riskLevelToNumber(pulse.riskLevel)
    IN [interpretation |-> IF twice < 60 THEN "good"
                           ELSE IF twice < 120 THEN "moderate" ELSE "poor",
        correlation |-> analyzeCorrelation(temperature, pulse)]

\* the synergy adjustment of 'moderate' as large as that of 'good'
calculateSynergyScoreEqualBonus(temperature, pulse, synergy) ==
    Clamp01(50
            + ((temperature.score - 50) * 3) \div 10
            + ((pulse.score - 50) * 3) \div 10
            + (IF synergy.interpretation = "good" THEN 20
               ELSE IF synergy.interpretation = "moderate" THEN 20 ELSE 0 - 10))

\* every (score - 0.5) * 0.3 of the table is a whole number of hundredths
calculateSynergyScore(temperature, pulse, synergy) ==
    Clamp01(50
            + ((temperature.score - 50) * 3) \div 10
            + ((pulse.score - 50) * 3) \div 10
            + (IF synergy.interpretation = "good" THEN 20
               ELSE IF synergy.interpretation = "moderate" THEN 10 ELSE 0 - 10))

TPS_assess(hd) ==
    LET tempData == hd.temperature
        pulseData == pulseOf(hd)
    IN IF ~tempData.present \/ Falsy(pulseData)
       THEN [status |-> "insufficient_data", score |-> 0, temperature |-> NoClass,
             pulse |-> NoClass, interpretation |-> Undef, correlation |-> Undef]
       ELSE LET temperature == TPS_assessTemperature(tempData)
                pulse == TPS_assessPulse(pulseData)
                synergy == calculateSynergy(temperature, pulse)
            IN [status |-> Undef,
                score |-> calculateSynergyScore(temperature, pulse, synergy),
                temperature |-> temperature, pulse |-> pulse,
                interpretation |-> synergy.interpretation,
                correlation |-> synergy.correlation]

---------------------------------------------------------------------------
(* DataDerivationLogic *)

\* uses the cuff's own pulse field, bpData.pulse
deriveCirculationInsight(bpData) ==
    IF Ge(bpData.systolic, 140) /\ Gt(bpData.pulse, 100)
    THEN <<[type |-> "circulation", insight |-> "load", confidence |-> "moderate"]>>
    ELSE IF Lt(bpData.systolic, 100) /\ Lt(bpData.pulse, 60)
    THEN <<[type |-> "circulation", insight |-> "weak", confidence |-> "moderate"]>>
    ELSE <<>>

deriveRespiratoryInsight(spo2Data) ==
    IF Lt(spo2Data.percent, 95) /\ Lt(spo2Data.pi, 10)
    THEN <<[type |-> "respiratory", insight |-> "respiratory", confidence |-> "moderate"]>>
    ELSE <<>>

deriveMetabolicInsight(tempData, pulseData) ==
    IF Gt(tempData.value, 375) /\ Gt(pulseData, 100)
    THEN <<[type |-> "metabolic", insight |-> "metabolic", confidence |-> "moderate"]>>
    ELSE <<>>

generateInsights(hd) ==
    (IF hd.bloodPressure.present THEN deriveCirculationInsight(hd.bloodPressure) ELSE <<>>)
    \o (IF hd.spO2.present THEN deriveRespiratoryInsight(hd.spO2) ELSE <<>>)
    \o (IF hd.temperature.present /\ ~Falsy(pulseOf(hd))
        THEN deriveMetabolicInsight(hd.temperature, pulseOf(hd)) ELSE <<>>)

---------------------------------------------------------------------------
(* ParameterCustomization *)

DefaultWeights == [bloodPressureStability |-> 35, bloodOxygenPerfusion |-> 25,
                   temperaturePulseSynergy |-> 40]

\* { ...defaults, ...newWeights }: the keys not supplied fall back to their defaults
updateWeightsOverDefaults(w, newWeights) ==
    [k \in DOMAIN w \cup DOMAIN newWeights |->
        IF k \in DOMAIN newWeights THEN newWeights[k] ELSE DefaultWeights[k]]

\* { ...this.settings.weights, ...newWeights }
updateWeights(w, newWeights) ==
    [k \in DOMAIN w \cup DOMAIN newWeights |->
        IF k \in DOMAIN newWeights THEN newWeights[k] ELSE w[k]]

---------------------------------------------------------------------------
(* ScientificHealthAssessment: composite score and risk stratification *)

\* compared on the unrounded quotient totalScore / totalWeight
scoreToGrade(totalScore, totalWeight) ==
    IF totalWeight <= 0 THEN "critical"
    ELSE IF totalScore >= 90 * totalWeight THEN "excellent"
    ELSE IF totalScore >= 80 * totalWeight THEN "good"
    ELSE IF totalScore >= 60 * totalWeight THEN "fair"
    ELSE IF totalScore >= 40 * totalWeight THEN "poor"
    ELSE "critical"

\* a confidence that remembers the report of the call before: it is halved at every
\* call after the first
calculateConfidenceCarriedOver(totalWeight) ==
    IF report.returned THEN report.compositeScore.confidence \div 2
    ELSE Min(totalWeight, 100)

\* Math.min(totalWeight * 100, 100)
calculateConfidence(totalWeight) == Min(totalWeight, 100)

\* the rounding without its division by 100: the score as a percentage
roundedScoreAsPercent(totalScore, totalWeight) ==
    IF totalWeight > 0
    THEN 100 * ((2 * totalScore + totalWeight) \div (2 * totalWeight)) ELSE 0

\* Math.round(compositeScore * 100) / 100, in hundredths; Math.round rounds a half up
roundedScore(totalScore, totalWeight) ==
    IF totalWeight > 0 THEN (2 * totalScore + totalWeight) \div (2 * totalWeight) ELSE 0

\* a sub-model enters the sums when its score is not undefined; the no_data and
\* insufficient_data results carry score 0
calculateCompositeScore(w, bp, spo2, tp) ==
    LET totalScore ==
            (IF IsNum(bp.score) THEN bp.score * w.bloodPressureStability ELSE 0)
          + (IF IsNum(spo2.score) THEN spo2.score * w.bloodOxygenPerfusion ELSE 0)
          + (IF IsNum(tp.score) THEN tp.score * w.temperaturePulseSynergy ELSE 0)
        totalWeight ==
            (IF IsNum(bp.score) THEN w.bloodPressureStability ELSE 0)
          + (IF IsNum(spo2.score) THEN w.bloodOxygenPerfusion ELSE 0)
          + (IF IsNum(tp.score) THEN w.temperaturePulseSynergy ELSE 0)
    IN [score |-> roundedScore(totalScore, totalWeight),
        grade |-> scoreToGrade(totalScore, totalWeight),
        confidence |-> calculateConfidence(totalWeight),
        weights |-> w,
        breakdown |-> [bloodPressureStability |-> OrElse(bp.score, 0),
                       bloodOxygenPerfusion |-> OrElse(spo2.score, 0),
                       temperaturePulseSynergy |-> OrElse(tp.score, 0)]]

getFollowUpInterval(riskCategory) ==
    CASE riskCategory = "very_high" -> "daily"
      [] riskCategory = "high"      -> "weekly"
      [] riskCategory = "moderate"  -> "monthly"
      [] riskCategory = "low"       -> "quarterly"
      [] OTHER                      -> "monthly"

\* the category taken from the grade alone
performRiskStratificationByGrade(compositeScore) ==
    LET riskCategory ==
            IF compositeScore.grade = "critical" THEN "very_high"
            ELSE IF compositeScore.grade = "poor" THEN "high"
            ELSE IF compositeScore.grade = "fair" THEN "moderate"
            ELSE "low"
    IN [category |-> riskCategory, level |-> compositeScore.grade,
        score |-> compositeScore.score,
        followUpInterval |-> getFollowUpInterval(riskCategory)]

performRiskStratification(compositeScore) ==
    LET riskCategory ==
            IF compositeScore.grade = "critical" \/ compositeScore.score < 40 THEN "very_high"
            ELSE IF compositeScore.grade = "poor" \/ compositeScore.score < 60 THEN "high"
            ELSE IF compositeScore.grade = "fair" \/ compositeScore.score < 80 THEN "moderate"
            ELSE "low"
    IN [category |-> riskCategory, level |-> compositeScore.grade,
        score |-> compositeScore.score,
        followUpInterval |-> getFollowUpInterval(riskCategory)]

NoReport == [returned |-> FALSE]

\* a reading that is null or undefined instead of an object
NullReading == [nullish |-> "null"]
UndefinedReading == [nullish |-> "undefined"]
IsNullish(hd) == "nullish" \in DOMAIN hd

\* the promise rejected by the catch block: one Error, whose message is the fixed
\* prefix followed by the message of the error caught; nothing is returned
Rejection(cause) ==
    [returned |-> FALSE, rejected |-> TRUE,
     errors |-> <<[name |-> "Error", prefix |-> "assessment failed", cause |-> cause]>>]

\* a pulse read as healthData.bloodPressure.pulse, without the optional chaining:
\* it throws when the blood pressure is absent
TypeErrorOfUnguardedPulse(hd) ==
    IF IsNullish(hd) THEN <<"TypeError", "bloodPressure", hd.nullish>>
    ELSE IF ~hd.bloodPressure.present THEN <<"TypeError", "pulse", "undefined">>
    ELSE <<>>

\* the error thrown inside the try block, <<>> when none is: reading
\* healthData.bloodPressure of null or undefined throws a TypeError; every other
\* access is guarded (if (!bpData), ?.) or reads a field of an object
TypeErrorOf(hd) ==
    IF IsNullish(hd) THEN <<"TypeError", "bloodPressure", hd.nullish>> ELSE <<>>

\* getCurrentSettings returns this.settings, the settings object itself and not a
\* copy of it: what it returns is a reference to the object the updates write to
CurrentSettingsRef == "this.parameterCustomization.settings"

\* the settings object when the weights are w (the thresholds are read by no
\* operation of the assessment)
getCurrentSettings(w) == [weights |-> w]

\* the catch block turns the error thrown into the rejection
generateComprehensiveAssessment(hd, w) ==
    IF TypeErrorOf(hd) # <<>> THEN Rejection(TypeErrorOf(hd))
    ELSE
    LET basicVitalSigns == assessBasicVitalSigns(hd)
        bpStabilityAssessment == BPS_assess(hd)
        spo2PerfusionAssessment == BOP_assess(hd)
        tempPulseAssessment == TPS_assess(hd)
        derivedInsights == generateInsights(hd)
        compositeScore == calculateCompositeScore(w, bpStabilityAssessment,
                              spo2PerfusionAssessment, tempPulseAssessment)
    IN [returned |-> TRUE,
        compositeScore |-> compositeScore,
        riskStratification |-> performRiskStratification(compositeScore),
        basicVitalSigns |-> basicVitalSigns,
        subModelAssessments |->
            [bloodPressureStability |-> bpStabilityAssessment,
             bloodOxygenPerfusion |-> spo2PerfusionAssessment,
             temperaturePulseSynergy |-> tempPulseAssessment],
        derivedInsights |-> derivedInsights,
        parameterSettings |-> CurrentSettingsRef]

---------------------------------------------------------------------------
(* ProfessionalHealthAssessment *)

\* variability = |systolic - diastolic| / meanBP * 100, compared with 20 and 10; a
\* missing field gives NaN, for which both comparisons are false
PHA_calculateBloodPressureVariability(bpData) ==
    LET s == bpData.systolic
        d == bpData.diastolic
    IN IF ~(IsNum(s) /\ IsNum(d)) THEN "low"
       ELSE IF s + d = 0 THEN (IF s = d THEN "low" ELSE "high")
       ELSE IF 10 * Abs(s - d) > s + d THEN "high"
       ELSE IF 20 * Abs(s - d) > s + d THEN "moderate"
       ELSE "low"

PHA_assessPerfusionIndex(pi) ==
    IF Lt(pi, 5) THEN "poor"
    ELSE IF Lt(pi, 10) THEN "fair"
    ELSE IF Lt(pi, 20) THEN "good"
    ELSE "excellent"

PHA_assessBloodPressure(bpData) ==
    IF ~bpData.present
    THEN [status |-> "no_data", category |-> Undef, riskLevel |-> Undef,
          variability |-> Undef]
    ELSE LET r == assessBloodPressure(bpData)   \* the same grading cascade
         IN [status |-> Undef, category |-> r.category, riskLevel |-> r.riskLevel,
             variability |-> PHA_calculateBloodPressureVariability(bpData)]

PHA_assessBloodOxygen(spo2Data) ==
    IF ~spo2Data.present
    THEN [status |-> "no_data", category |-> Undef, riskLevel |-> Undef,
          perfusionStatus |-> Undef]
    ELSE LET r == assessBloodOxygen(spo2Data)   \* the same grading cascade
         IN [status |-> Undef, category |-> r.category, riskLevel |-> r.riskLevel,
             perfusionStatus |-> PHA_assessPerfusionIndex(spo2Data.pi)]

\* assessTemperature and assessPulse have the bodies of their namesakes in
\* ScientificHealthAssessment; assessBasicVitalSigns is the same
PHA_assessBasicVitalSigns(hd) ==
    [bloodPressure |-> PHA_assessBloodPressure(hd.bloodPressure),
     bloodOxygen   |-> PHA_assessBloodOxygen(hd.spO2),
     temperature   |-> assessTemperature(hd.temperature),
     pulse         |-> assessPulse(pulseOf(hd))]

\* the sub-models of src/unnamed/part_000: no score, the sentinel is { status: 'no_data' }
PHA_BPS_assess(hd) ==
    IF ~hd.bloodPressure.present
    THEN [status |-> "no_data", stability |-> Undef, variability |-> Undef]
    ELSE [status |-> Undef, stability |-> BPS_calculateStability(hd.bloodPressure),
          variability |-> "single_measurement"]

PHA_BOP_assess(hd) ==
    IF ~hd.spO2.present
    THEN [status |-> "no_data", perfusion |-> Undef, efficiency |-> Undef]
    ELSE [status |-> Undef, perfusion |-> BOP_calculatePerfusion(hd.spO2),
          efficiency |-> BOP_calculateEfficiency(hd.spO2)]

PHA_TPS_assess(hd) ==
    LET tempData == hd.temperature
        pulseData == pulseOf(hd)
        t == TPS_assessTemperature(tempData)
        p == TPS_assessPulse(pulseData)
        temperature == IF tempData.present
                       THEN [status |-> Undef, category |-> t.category,
                             riskLevel |-> t.riskLevel]
                       ELSE NoDataResult
        pulse == IF ~Falsy(pulseData)
                 THEN [status |-> Undef, category |-> p.category, riskLevel |-> p.riskLevel]
                 ELSE NoDataResult
    IN [temperature |-> temperature, pulse |-> pulse,
        synergy |-> IF temperature.status = "no_data" \/ pulse.status = "no_data"
                    THEN [status |-> "insufficient_data", interpretation |-> Undef,
                          correlation |-> Undef]
                    ELSE LET y == calculateSynergy(temperature, pulse)
                         IN [status |-> Undef, interpretation |-> y.interpretation,
                             correlation |-> y.correlation]]

PHA_riskLevelToScore(riskLevel) ==
    CASE riskLevel = "very_high"    -> 20
      [] riskLevel = "high"         -> 40
      [] riskLevel = "moderate"     -> 60
      [] riskLevel = "low_moderate" -> 80
      [] riskLevel = "low"          -> 100
      [] OTHER                      -> 50

\* the weights are fixed: 0.35, 0.25, 0.20, 0.20.  bpAssessment and spo2Assessment
\* are the results of the sub-models, which have no riskLevel field, so their two
\* terms are never added; scoreToGrade and calculateConfidence are those of
\* ScientificHealthAssessment
PHA_calculateCompositeScore(bp, spo2, tp) ==
    LET bpRiskLevel == Undef
        spo2RiskLevel == Undef
        tempRiskLevel == tp.temperature.riskLevel
        pulseRiskLevel == tp.pulse.riskLevel
        totalScore ==
            (IF bpRiskLevel # Undef THEN PHA_riskLevelToScore(bpRiskLevel) * 35 ELSE 0)
          + (IF spo2RiskLevel # Undef THEN PHA_riskLevelToScore(spo2RiskLevel) * 25 ELSE 0)
          + (IF tempRiskLevel # Undef THEN PHA_riskLevelToScore(tempRiskLevel) * 20 ELSE 0)
          + (IF pulseRiskLevel # Undef THEN PHA_riskLevelToScore(pulseRiskLevel) * 20 ELSE 0)
        totalWeight ==
            (IF bpRiskLevel # Undef THEN 35 ELSE 0)
          + (IF spo2RiskLevel # Undef THEN 25 ELSE 0)
          + (IF tempRiskLevel # Undef THEN 20 ELSE 0)
          + (IF pulseRiskLevel # Undef THEN 20 ELSE 0)
    IN [score |-> roundedScore(totalScore, totalWeight),
        grade |-> scoreToGrade(totalScore, totalWeight),
        confidence |-> calculateConfidence(totalWeight)]

PHA_Rejection(cause) ==
    [returned |-> FALSE, rejected |-> TRUE,
     errors |-> <<[name |-> "Error", prefix |-> "health assessment failed",
                   cause |-> cause]>>]

\* performRiskStratification and DataDerivationLogic.generateInsights have the rules
\* of their namesakes in src/scientific_health_assessment.js
PHA_generateComprehensiveAssessment(hd) ==
    IF TypeErrorOf(hd) # <<>> THEN PHA_Rejection(TypeErrorOf(hd))
    ELSE
    LET basicVitalSigns == PHA_assessBasicVitalSigns(hd)
        bpAssessment == PHA_BPS_assess(hd)
        spo2Assessment == PHA_BOP_assess(hd)
        tempPulseAssessment == PHA_TPS_assess(hd)
        derivedInsights == generateInsights(hd)
        compositeScore == PHA_calculateCompositeScore(bpAssessment, spo2Assessment,
                                                      tempPulseAssessment)
    IN [returned |-> TRUE,
        compositeScore |-> compositeScore,
        riskStratification |-> performRiskStratification(compositeScore),
        basicVitalSigns |-> basicVitalSigns,
        subModelAssessments |->
            [bloodPressure |-> bpAssessment, bloodOxygen |-> spo2Assessment,
             temperaturePulse |-> tempPulseAssessment],
        derivedInsights |-> derivedInsights]

---------------------------------------------------------------------------
(* Inputs *)

Locations == {"axillary", "oral", "rectal", "ear", "forehead", "other", Undef}

\* readings passed to generateComprehensiveAssessment: every substructure absent or
\* present, values on both sides of the thresholds, the cuff pulse and the oximeter
\* pulse rate each missing or given
BloodPressures ==
    {NoBloodPressure} \cup
    [present : {TRUE}, systolic : {95, 105, 150, 185}, diastolic : {60, 95},
     pulse : {Undefined, 45, 80, 110, 130}]
SpO2s ==
    {NoSpO2} \cup
    [present : {TRUE}, percent : {88, 93, 98}, pi : {4, 8, 15, 25}, pr : {Undefined, 110}]
Temperatures ==
    {NoTemperature} \cup
    [present : {TRUE}, value : {354, 358, 365, 375, 380}, location : {"axillary", "rectal", Undef}]
Readings == [bloodPressure : BloodPressures, spO2 : SpO2s, temperature : Temperatures]

\* arguments of updateWeights
WeightUpdates == {[bloodPressureStability |-> 50], [temperaturePulseSynergy |-> 0]}

\* arguments of the direct classifier calls: every value up to the bounds
BloodPressureArgs ==
    {NoBloodPressure} \cup
    [present : {TRUE}, systolic : 70..MaxSystolic, diastolic : 40..MaxDiastolic, pulse : {72}]
SpO2Args ==
    {NoSpO2} \cup
    [present : {TRUE}, percent : 80..MaxPercent, pi : 0..MaxPiTenths, pr : {72}]
TemperatureArgs ==
    {NoTemperature} \cup
    [present : {TRUE}, value : 340..MaxTempTenths, location : Locations]
PulseArgs == {Undefined} \cup (0..MaxPulse)

\* arguments of the direct calls of the sub-model and stratification methods
Grades == {"excellent", "good", "fair", "poor", "critical"}
CompositeScoreArgs == [score : 0..MaxScore, grade : Grades]
PresentBloodPressureArgs ==
    [present : {TRUE}, systolic : 70..MaxSystolic, diastolic : 40..MaxDiastolic, pulse : {72}]

\* readings with a substructure present but a field of it missing, the reading of a
\* fever with a fast pulse, and the readings that are not objects
IncompleteBloodPressures ==
    {NoBloodPressure} \cup
    [present : {TRUE}, systolic : {Undefined, 150}, diastolic : {Undefined, 95},
     pulse : {Undefined, 110}]
IncompleteSpO2s ==
    {NoSpO2} \cup
    [present : {TRUE}, percent : {Undefined, 93}, pi : {Undefined, 8}, pr : {Undefined, 110}]
IncompleteTemperatures ==
    {NoTemperature} \cup
    [present : {TRUE}, value : {Undefined, 382}, location : {"rectal", Undef}]
IncompleteReadings ==
    [bloodPressure : IncompleteBloodPressures, spO2 : IncompleteSpO2s,
     temperature : IncompleteTemperatures]
    \cup {NullReading, UndefinedReading}

\* the readings assessed one after the other on one assessment object
RepeatReadings ==
    {[bloodPressure |-> NoBloodPressure, spO2 |-> NoSpO2, temperature |-> NoTemperature],
     [bloodPressure |-> [present |-> TRUE, systolic |-> 105, diastolic |-> 95, pulse |-> 80],
      spO2 |-> [present |-> TRUE, percent |-> 98, pi |-> 25, pr |-> Undefined],
      temperature |-> [present |-> TRUE, value |-> 365, location |-> "axillary"]],
     [bloodPressure |-> [present |-> TRUE, systolic |-> 185, diastolic |-> 95, pulse |-> 110],
      spO2 |-> NoSpO2,
      temperature |-> [present |-> TRUE, value |-> 380, location |-> Undef]],
     [bloodPressure |-> NoBloodPressure,
      spO2 |-> [present |-> TRUE, percent |-> 88, pi |-> 4, pr |-> 110],
      temperature |-> NoTemperature],
     [bloodPressure |-> [present |-> TRUE, systolic |-> 95, diastolic |-> 60, pulse |-> 45],
      spO2 |-> [present |-> TRUE, percent |-> 93, pi |-> 8, pr |-> Undefined],
      temperature |-> [present |-> TRUE, value |-> 354, location |-> "rectal"]]}

---------------------------------------------------------------------------
(* The other components as loaded: no request received, no chat modal opened, no    *)
(* chart rendered, the playback stopped at index 0 of a period of 7 days.           *)

\* JavaScript null, where the other values are object identities 1, 2, ...
Null == 0

ChartIds == {"report-blood-pressure-chart", "report-blood-sugar-chart",
             "report-heart-rate-chart"}
FullscreenKey == "__fullscreen"

NoRequests == <<>>

InitialPlaybackState == [isPlaying |-> FALSE, currentIndex |-> 0, interval |-> Null, speed |-> 1]

ProxyIdle == requests = NoRequests
ChatClosed == currentChatModal = Null /\ chatBoxes = <<>> /\ sends = <<>>
NoCharts ==
    /\ chartInstances = [k \in {} |-> Null]
    /\ charts = <<>>
    /\ fullscreenClose = Null
PlaybackStopped ==
    /\ playbackState = InitialPlaybackState
    /\ reportDays = 7
    /\ timers = {}

UiLoaded == ProxyIdle /\ ChatClosed /\ NoCharts /\ PlaybackStopped

---------------------------------------------------------------------------
(* The assessment object: one reading held by the caller, assessed any number of    *)
(* times, with the weights changed in between.                                      *)

NoCall == [op |-> "none"]

Init ==
    /\ healthData \in Readings
    /\ weights = DefaultWeights
    /\ report = NoReport
    /\ call = NoCall
    /\ UiLoaded

GenerateComprehensiveAssessment ==
    /\ report' = generateComprehensiveAssessment(healthData, weights)
    /\ UNCHANGED <<healthData, weights, call, uiVars>>

UpdateWeights ==
    \E newWeights \in WeightUpdates :
        /\ weights' = updateWeights(weights, newWeights)
        /\ UNCHANGED <<healthData, report, call, uiVars>>

Next ==
    \/ GenerateComprehensiveAssessment
    \/ UpdateWeights

Spec == Init /\ [][Next]_vars

---------------------------------------------------------------------------
(* The assessment object given an incomplete or malformed reading.                  *)

InitIncomplete ==
    /\ healthData \in IncompleteReadings
    /\ weights = DefaultWeights
    /\ report = NoReport
    /\ call = NoCall
    /\ UiLoaded

ProfessionalGenerateComprehensiveAssessment ==
    /\ call' = [op |-> "ProfessionalHealthAssessment.generateComprehensiveAssessment",
                arg |-> healthData,
                result |-> PHA_generateComprehensiveAssessment(healthData)]
    /\ UNCHANGED <<healthData, weights, report, uiVars>>

NextIncomplete ==
    \/ GenerateComprehensiveAssessment
    \/ UpdateWeights
    \/ ProfessionalGenerateComprehensiveAssessment

SpecIncomplete == InitIncomplete /\ [][NextIncomplete]_vars

---------------------------------------------------------------------------
(* One assessment object given one reading after the other.  call keeps the first   *)
(* call of generateComprehensiveAssessment (its reading, the weights then set, its  *)
(* report) and the readings assessed after it; healthData and report are those of   *)
(* the latest call.                                                                 *)

\* the object as constructed, before its first call
InitRepeat ==
    /\ healthData = [bloodPressure |-> NoBloodPressure, spO2 |-> NoSpO2,
                     temperature |-> NoTemperature]
    /\ weights = DefaultWeights
    /\ report = NoReport
    /\ call = NoCall
    /\ UiLoaded

AssessReading ==
    \E hd \in RepeatReadings :
        /\ healthData' = hd
        /\ report' = generateComprehensiveAssessment(hd, weights)
        /\ call' = IF call = NoCall
                   THEN [op |-> "generateComprehensiveAssessment", arg |-> hd,
                         weights |-> weights, result |-> report', later |-> {}]
                   ELSE [call EXCEPT !.later = @ \cup {hd}]
        /\ UNCHANGED <<weights, uiVars>>

NextRepeat ==
    \/ AssessReading
    \/ UpdateWeights

SpecRepeat == InitRepeat /\ [][NextRepeat]_vars

---------------------------------------------------------------------------
(* The classifiers called directly, one call on one argument.                       *)

InitClassify ==
    /\ healthData = [bloodPressure |-> NoBloodPressure, spO2 |-> NoSpO2,
                     temperature |-> NoTemperature]
    /\ weights = DefaultWeights
    /\ report = NoReport
    /\ call = NoCall
    /\ UiLoaded

CallAssessBloodPressure ==
    \E bpData \in BloodPressureArgs :
        /\ call = NoCall
        /\ call' = [op |-> "assessBloodPressure", arg |-> bpData,
                    result |-> assessBloodPressure(bpData)]
        /\ UNCHANGED <<healthData, weights, report, uiVars>>

CallAssessBloodOxygen ==
    \E spo2Data \in SpO2Args :
        /\ call = NoCall
        /\ call' = [op |-> "assessBloodOxygen", arg |-> spo2Data,
                    result |-> assessBloodOxygen(spo2Data)]
        /\ UNCHANGED <<healthData, weights, report, uiVars>>

CallAssessTemperature ==
    \E tempData \in TemperatureArgs :
        /\ call = NoCall
        /\ call' = [op |-> "assessTemperature", arg |-> tempData,
                    result |-> assessTemperature(tempData)]
        /\ UNCHANGED <<healthData, weights, report, uiVars>>

CallAssessPulse ==
    \E pulseData \in PulseArgs :
        /\ call = NoCall
        /\ call' = [op |-> "assessPulse", arg |-> pulseData,
                    result |-> assessPulse(pulseData)]
        /\ UNCHANGED <<healthData, weights, report, uiVars>>

NextClassify ==
    \/ CallAssessBloodPressure
    \/ CallAssessBloodOxygen
    \/ CallAssessTemperature
    \/ CallAssessPulse

SpecClassify == InitClassify /\ [][NextClassify]_vars

---------------------------------------------------------------------------
(* The sub-model and stratification methods called directly, one call on one        *)
(* argument.                                                                        *)

CallCalculateVariability ==
    /\ call = NoCall
    /\ \E bpData \in PresentBloodPressureArgs :
        /\ call' = [op |-> "BloodPressureStabilityModel.calculateVariability",
                    arg |-> bpData, result |-> BPS_calculateVariability(bpData)]
        /\ UNCHANGED <<healthData, weights, report, uiVars>>

CallCalculateBloodPressureVariability ==
    /\ call = NoCall
    /\ \E bpData \in PresentBloodPressureArgs :
        /\ call' = [op |-> "ProfessionalHealthAssessment.calculateBloodPressureVariability",
                    arg |-> bpData,
                    result |-> PHA_calculateBloodPressureVariability(bpData)]
        /\ UNCHANGED <<healthData, weights, report, uiVars>>

CallStabilityAssess ==
    /\ call = NoCall
    /\ \E bpData \in BloodPressureArgs :
        /\ call' = [op |-> "BloodPressureStabilityModel.assess", arg |-> bpData,
                    result |-> BPS_assess([bloodPressure |-> bpData, spO2 |-> NoSpO2,
                                           temperature |-> NoTemperature])]
        /\ UNCHANGED <<healthData, weights, report, uiVars>>

CallPerformRiskStratification ==
    /\ call = NoCall
    /\ \E compositeScore \in CompositeScoreArgs :
        /\ call' = [op |-> "performRiskStratification", arg |-> compositeScore,
                    result |-> performRiskStratification(compositeScore)]
        /\ UNCHANGED <<healthData, weights, report, uiVars>>

NextSubModel ==
    \/ CallCalculateVariability
    \/ CallCalculateBloodPressureVariability
    \/ CallStabilityAssess
    \/ CallPerformRiskStratification

SpecSubModel == InitClassify /\ [][NextSubModel]_vars

---------------------------------------------------------------------------
(* Properties of the composite score, stated on the reading and the report *)

SubModels == {"bloodPressureStability", "bloodOxygenPerfusion", "temperaturePulseSynergy"}

\* the input of a sub-model is present in the reading
InputPresent(hd, m) ==
    CASE m = "bloodPressureStability"  -> hd.bloodPressure.present
      [] m = "bloodOxygenPerfusion"    -> hd.spO2.present
      [] m = "temperaturePulseSynergy" -> hd.temperature.present /\ ~Falsy(pulseOf(hd))

PresentModels(hd) == {m \in SubModels : InputPresent(hd, m)}

RECURSIVE SumOver(_, _, _)
\* the sum of f[m] * g[m] over the sub-models m of S
SumOver(S, f, g) ==
    IF S = {} THEN 0
    ELSE LET m == CHOOSE x \in S : TRUE
         IN f[m] * g[m] + SumOver(S \ {m}, f, g)

One == [m \in SubModels |-> 1]

SubScores(r) == [m \in SubModels |-> r.subModelAssessments[m].score]

\* sum(score x weight) / sum(weight) over the present sub-models, rounded to hundredths
PresentMean(hd, r) ==
    LET W == SumOver(PresentModels(hd), r.compositeScore.weights, One)
        S == SumOver(PresentModels(hd), SubScores(r), r.compositeScore.weights)
    IN (2 * S + W) \div (2 * W)

PresentWeight(hd, r) == SumOver(PresentModels(hd), r.compositeScore.weights, One)

(* C1: the composite score is sum(score x weight) / sum(weight) over exactly the      *)
(* sub-models whose input is present in the reading; an absent one adds nothing to   *)
(* the numerator and nothing to the denominator.                                     *)
C1_CompositeOverPresentOnly ==
    (report.returned /\ PresentWeight(healthData, report) > 0)
        => report.compositeScore.score = PresentMean(healthData, report)

(* C2: with bloodPressure, spO2 and temperature all absent the composite score is 0  *)
(* and its confidence is 0.                                                          *)
C2_AllAbsentScoreAndConfidenceZero ==
    (/\ report.returned
     /\ ~healthData.bloodPressure.present
     /\ ~healthData.spO2.present
     /\ ~healthData.temperature.present)
        => (report.compositeScore.score = 0 /\ report.compositeScore.confidence = 0)

(* C3: the confidence is min(100, 100 x the sum of the weights of the sub-models     *)
(* whose input is present).                                                          *)
C3_ConfidenceIsPresentWeight ==
    report.returned
        => report.compositeScore.confidence = Min(100, PresentWeight(healthData, report))

(* C4: under the default weights the composite score is within [0,1], the confidence *)
(* within [0,100] and every sub-model score within [0,1].                            *)
C4_ScoresWithinRange ==
    (report.returned /\ report.compositeScore.weights = DefaultWeights)
        => /\ report.compositeScore.score \in 0..100
           /\ report.compositeScore.confidence \in 0..100
           /\ \A m \in SubModels : report.subModelAssessments[m].score \in 0..100

C4_Witness ==
    /\ report.returned
    /\ report.compositeScore.weights = DefaultWeights
    /\ PresentModels(healthData) = SubModels
    /\ report.subModelAssessments.bloodPressureStability.score = 100
    /\ report.subModelAssessments.bloodOxygenPerfusion.score = 20
    /\ report.compositeScore.score > 50

---------------------------------------------------------------------------
(* Properties of the classifiers, stated on a direct call *)

RiskLevels == <<"low", "low_moderate", "moderate", "high", "very_high">>
BpCategories == <<"normal", "high_normal", "stage1_hypertension", "stage2_hypertension",
                  "stage3_hypertension">>

\* the number of thresholds of the ascending list T that v has reached
Passed(v, T) == Cardinality({i \in DOMAIN T : v >= T[i]})

\* the place of a risk level in low < low_moderate < moderate < high < very_high
TierOf(riskLevel) == CHOOSE i \in 0..4 : RiskLevels[i + 1] = riskLevel

IsBpCall == call.op = "assessBloodPressure" /\ call.arg.present

(* C5: a present blood pressure gets the more severe of the categories of its two     *)
(* values: each value is staged on its own thresholds (systolic 130/140/160/180,      *)
(* diastolic 85/90/100/110) and the higher stage gives category and riskLevel.        *)
C5_BloodPressureMoreSevere ==
    IsBpCall =>
        LET stage == Max(Passed(call.arg.systolic, <<130, 140, 160, 180>>),
                         Passed(call.arg.diastolic, <<85, 90, 100, 110>>))
        IN /\ call.result.category = BpCategories[stage + 1]
           /\ call.result.riskLevel = RiskLevels[stage + 1]

C5_Witness ==
    /\ IsBpCall
    /\ call.arg.systolic = 185
    /\ call.arg.diastolic = 115
    /\ call.result.category = "stage3_hypertension"
    /\ call.result.riskLevel = "very_high"

IsClassified(result, categories) ==
    /\ result.status = Undef
    /\ result.category \in categories
    /\ \E i \in 1..5 : result.riskLevel = RiskLevels[i]

C7_PulseClassifier ==
    (call.op = "assessPulse" /\ ~Falsy(call.arg)) =>
        LET p == call.arg
        IN /\ call.result.category =
                  (IF p < 50 THEN "bradycardia"
                   ELSE IF p > 120 THEN "severe_tachycardia"
                   ELSE IF p > 100 THEN "tachycardia" ELSE "normal")
           /\ call.result.riskLevel =
                  (IF p > 120 THEN "high"
                   ELSE IF p < 50 \/ p > 100 THEN "moderate" ELSE "low")

\* the normal range of each measurement site, in tenths of a degree
SiteRange ==
    [axillary |-> <<360, 372>>, oral |-> <<363, 372>>, rectal |-> <<366, 376>>,
     ear |-> <<361, 371>>, forehead |-> <<358, 370>>]

RangeOfSite(location) ==
    IF location \in DOMAIN SiteRange THEN SiteRange[location] ELSE SiteRange.axillary

IsTempCall == call.op = "assessTemperature" /\ call.arg.present

C9_Axillary38IsFever ==
    (IsTempCall /\ call.arg.location = "axillary" /\ call.arg.value = 380)
        => (call.result.category = "fever" /\ call.result.riskLevel = "moderate")

(* C9 amended: 38.0 at the axillary site (range 36.0-37.2) is above max + 0.5 = 37.7 *)
(* and is classified high_fever with riskLevel high.                                 *)
C9_Axillary38IsHighFever ==
    (IsTempCall /\ call.arg.location = "axillary" /\ call.arg.value = 380)
        => (call.result.category = "high_fever" /\ call.result.riskLevel = "high")

C9_Witness ==
    /\ IsTempCall
    /\ call.arg.location = "axillary"
    /\ call.arg.value = 380
    /\ call.result.category = "high_fever"

---------------------------------------------------------------------------
(* Properties of absent vital signs, stated on the reading and the report *)

IsNoData(result) ==
    result.status = "no_data" /\ result.category = Undef /\ result.riskLevel = Undef

\* each classifier returns the no_data sentinel exactly when its input is absent, and
\* a classified result otherwise
SentinelExactlyWhenAbsent(hd, r) ==
    LET b == r.basicVitalSigns
    IN /\ IsNoData(b.bloodPressure) <=> ~hd.bloodPressure.present
       /\ IsNoData(b.bloodOxygen) <=> ~hd.spO2.present
       /\ IsNoData(b.temperature) <=> ~hd.temperature.present
       /\ IsNoData(b.pulse) <=> Falsy(pulseOf(hd))
       /\ \A k \in DOMAIN b : IsNoData(b[k]) \/ IsClassified(b[k], {b[k].category} \ {Undef})

\* no sub-model fed by an absent vital sign enters the composite score
AbsentExcludedFromScoring(hd, r) ==
    /\ r.compositeScore.confidence = Min(100, PresentWeight(hd, r))
    /\ PresentWeight(hd, r) > 0 => r.compositeScore.score = PresentMean(hd, r)
    /\ PresentWeight(hd, r) = 0 => r.compositeScore.score = 0

(* C10: each of the four classifiers returns the no_data sentinel, without category   *)
(* and riskLevel, exactly when its input is absent, and an absent vital sign is       *)
(* excluded from scoring.                                                             *)
C10_AbsentIsNoDataAndUnscored ==
    report.returned =>
        /\ SentinelExactlyWhenAbsent(healthData, report)
        /\ AbsentExcludedFromScoring(healthData, report)

---------------------------------------------------------------------------
(* Properties of incomplete readings, stated on the reading and the report *)

BpIncomplete(hd) ==
    hd.bloodPressure.present
    /\ (~IsNum(hd.bloodPressure.systolic) \/ ~IsNum(hd.bloodPressure.diastolic))
SpO2Incomplete(hd) ==
    hd.spO2.present /\ (~IsNum(hd.spO2.percent) \/ ~IsNum(hd.spO2.pi))
TempIncomplete(hd) ==
    hd.temperature.present /\ ~IsNum(hd.temperature.value)

(* C11: a vital sign whose substructure is present but lacks a numeric field gets    *)
(* the no_data result, without category and riskLevel, and its sub-model returns     *)
(* its sentinel, without tier.                                                        *)
C11_MissingFieldIsNoData ==
    (report.returned /\ ~IsNullish(healthData)) =>
        LET b == report.basicVitalSigns
            m == report.subModelAssessments
        IN /\ BpIncomplete(healthData) =>
                  /\ IsNoData(b.bloodPressure)
                  /\ m.bloodPressureStability.status = "no_data"
                  /\ m.bloodPressureStability.stability = Undef
           /\ SpO2Incomplete(healthData) =>
                  /\ IsNoData(b.bloodOxygen)
                  /\ m.bloodOxygenPerfusion.status = "no_data"
                  /\ m.bloodOxygenPerfusion.perfusion = Undef
           /\ TempIncomplete(healthData) =>
                  /\ IsNoData(b.temperature)
                  /\ m.temperaturePulseSynergy.status = "insufficient_data"
                  /\ m.temperaturePulseSynergy.temperature.category = Undef

---------------------------------------------------------------------------
(* Properties of the temperature-pulse synergy sub-model and of the insights *)

RiskNumber == [low |-> 20, low_moderate |-> 40, moderate |-> 60, high |-> 80,
               very_high |-> 100]

\* the adjustment for the mean of two risk numbers, given their sum
SynergyBonus(sum) == IF sum < 2 * 30 THEN 20 ELSE IF sum < 2 * 60 THEN 10 ELSE 0 - 10

(* C12: the synergy sub-model returns the insufficient_data sentinel with score 0     *)
(* when temperature or pulse (cuff pulse, else oximeter pulse rate) is absent;        *)
(* otherwise its score is clamp[0,1] of 0.5 + 0.3 x (tempScore - 0.5)                 *)
(* + 0.3 x (pulseScore - 0.5) + bonus, the bonus being +0.2, +0.1 or -0.1 for a mean  *)
(* of the two risk numbers below 0.3, below 0.6, or not.                              *)
C12_SynergyScore ==
    report.returned =>
        LET t == report.subModelAssessments.temperaturePulseSynergy
        IN IF ~healthData.temperature.present \/ Falsy(pulseOf(healthData))
           THEN t.status = "insufficient_data" /\ t.score = 0
           ELSE /\ t.status # "insufficient_data"
                /\ 10 * t.score =
                       Max(0, Min(1000,
                           500 + 3 * (t.temperature.score - 50) + 3 * (t.pulse.score - 50)
                           + 10 * SynergyBonus(RiskNumber[t.temperature.riskLevel]
                                               + RiskNumber[t.pulse.riskLevel])))

C12_Witness ==
    /\ report.returned
    /\ healthData.temperature.value = 375
    /\ healthData.temperature.location = "axillary"
    /\ pulseOf(healthData) = 110
    /\ healthData.bloodPressure.pulse = Undefined
    /\ report.subModelAssessments.temperaturePulseSynergy.interpretation = "poor"
    /\ report.subModelAssessments.temperaturePulseSynergy.score = 40

HasInsight(r, type, insight) ==
    \E i \in DOMAIN r.derivedInsights :
        r.derivedInsights[i].type = type /\ r.derivedInsights[i].insight = insight

(* C13: for a reading with temperature value 38.2 and pulse 110 a metabolic insight   *)
(* is emitted and the synergy sub-model reports positive_correlation.                 *)
C13_FeverWithFastPulse ==
    (/\ report.returned
     /\ ~IsNullish(healthData)
     /\ healthData.temperature.present
     /\ healthData.temperature.value = 382
     /\ pulseOf(healthData) = 110)
        => /\ HasInsight(report, "metabolic", "metabolic")
           /\ report.subModelAssessments.temperaturePulseSynergy.correlation
                  = "positive_correlation"

\* the metabolic insight alone
C13_MetabolicInsightEmitted ==
    (/\ report.returned
     /\ ~IsNullish(healthData)
     /\ healthData.temperature.present
     /\ healthData.temperature.value = 382
     /\ pulseOf(healthData) = 110)
        => HasInsight(report, "metabolic", "metabolic")

\* the rules of the derivation engine on the reading, pulse being the cuff pulse or
\* else the oximeter pulse rate
TriggeredInsights(hd) ==
    LET p == pulseOf(hd)
    IN {x \in {<<"circulation", "load">>, <<"circulation", "weak">>,
               <<"respiratory", "respiratory">>, <<"metabolic", "metabolic">>} :
          \/ x[2] = "load" /\ Ge(hd.bloodPressure.systolic, 140) /\ Gt(p, 100)
          \/ x[2] = "weak" /\ Lt(hd.bloodPressure.systolic, 100) /\ Lt(p, 60)
          \/ x[2] = "respiratory" /\ Lt(hd.spO2.percent, 95) /\ Lt(hd.spO2.pi, 10)
          \/ x[2] = "metabolic" /\ Gt(hd.temperature.value, 375) /\ Gt(p, 100)}

EmittedInsights(r) ==
    {<<r.derivedInsights[i].type, r.derivedInsights[i].insight>> : i \in DOMAIN r.derivedInsights}

(* C14: the insights emitted are exactly those whose rule holds on the reading        *)
(* (circulation load: systolic >= 140 and pulse > 100; weak circulation: systolic     *)
(* < 100 and pulse < 60; respiratory: SpO2 < 95 and pi < 1.0; metabolic: temperature  *)
(* > 37.5 and pulse > 100), pulse being the cuff pulse or else the oximeter pulse     *)
(* rate; each has confidence moderate and the list is empty when no rule holds.       *)
C14_InsightsExactlyTriggered ==
    report.returned =>
        /\ EmittedInsights(report) = TriggeredInsights(healthData)
        /\ Len(report.derivedInsights) = Cardinality(TriggeredInsights(healthData))
        /\ \A i \in DOMAIN report.derivedInsights :
               report.derivedInsights[i].confidence = "moderate"

\* the same with the circulation rules read on the cuff pulse alone
C14_CirculationOnCuffPulse ==
    report.returned =>
        LET cuff == [healthData EXCEPT !.spO2.pr = Undefined]
            own == {x \in TriggeredInsights(healthData) : x[1] # "circulation"}
                   \cup {x \in TriggeredInsights(cuff) : x[1] = "circulation"}
        IN /\ EmittedInsights(report) = own
           /\ Len(report.derivedInsights) = Cardinality(own)

---------------------------------------------------------------------------
(* Properties of the grade and of the risk stratification *)

\* the risk category the rule assigns to a grade and a score
CategoryOf(grade, score) ==
    IF grade = "critical" \/ score < 40 THEN "very_high"
    ELSE IF grade = "poor" \/ score < 60 THEN "high"
    ELSE IF grade = "fair" \/ score < 80 THEN "moderate"
    ELSE "low"

IntervalOf == [very_high |-> "daily", high |-> "weekly", moderate |-> "monthly",
               low |-> "quarterly"]

(* C15: performRiskStratification returns very_high for grade critical or score       *)
(* < 0.4, else high for poor or < 0.6, else moderate for fair or < 0.8, else low,     *)
(* and the follow-up interval of that category (daily, weekly, monthly, quarterly).   *)
C15_RiskStratification ==
    call.op = "performRiskStratification" =>
        /\ call.result.category = CategoryOf(call.arg.grade, call.arg.score)
        /\ call.result.followUpInterval = IntervalOf[call.result.category]

C15_Witness ==
    /\ call.op = "performRiskStratification"
    /\ call.arg.grade = "good"
    /\ call.arg.score = 59
    /\ call.result.category = "high"
    /\ call.result.followUpInterval = "weekly"

\* the grade the thresholds assign to a score in hundredths
GradeOf(score) ==
    IF score >= 90 THEN "excellent"
    ELSE IF score >= 80 THEN "good"
    ELSE IF score >= 60 THEN "fair"
    ELSE IF score >= 40 THEN "poor"
    ELSE "critical"

(* C16: in every compositeScore object the grade is the grade the thresholds          *)
(* (0.9, 0.8, 0.6, 0.4) assign to the score of the same object.                       *)
C16_GradeMatchesScore ==
    report.returned => report.compositeScore.grade = GradeOf(report.compositeScore.score)

---------------------------------------------------------------------------
(* Properties of the blood-pressure variability and stability, stated on a direct   *)
(* call                                                                              *)

\* CV = |systolic - diastolic| / mean(systolic, diastolic) x 100 compared with a
\* number of percent n: CV < n iff 200 x |s - d| < n x (s + d)
CvBelow(bpData, n) == 200 * Abs(bpData.systolic - bpData.diastolic)
                          < n * (bpData.systolic + bpData.diastolic)

\* low when CV < 10, moderate when 10 <= CV < 20, high when CV >= 20
VariabilityOf(bpData) ==
    IF CvBelow(bpData, 10) THEN "low"
    ELSE IF CvBelow(bpData, 20) THEN "moderate" ELSE "high"

IsVariabilityCall ==
    call.op \in {"BloodPressureStabilityModel.calculateVariability",
                 "ProfessionalHealthAssessment.calculateBloodPressureVariability"}

(* C17: the variability interpretation is low when CV < 10, moderate when             *)
(* 10 <= CV < 20 and high when CV >= 20 in both places that compute it, which         *)
(* therefore agree on every reading.                                                  *)
C17_VariabilityAgrees ==
    IsVariabilityCall =>
        /\ call.result = VariabilityOf(call.arg)
        /\ BPS_calculateVariability(call.arg)
               = PHA_calculateBloodPressureVariability(call.arg)

\* the stability model's own computation alone
C17_StabilityModelVariability ==
    call.op = "BloodPressureStabilityModel.calculateVariability"
        => call.result = VariabilityOf(call.arg)

\* the two computations away from CV = 10 and CV = 20
C17_AgreeOffBoundary ==
    (/\ IsVariabilityCall
     /\ 20 * Abs(call.arg.systolic - call.arg.diastolic)
            # call.arg.systolic + call.arg.diastolic
     /\ 10 * Abs(call.arg.systolic - call.arg.diastolic)
            # call.arg.systolic + call.arg.diastolic)
        => /\ call.result = VariabilityOf(call.arg)
           /\ BPS_calculateVariability(call.arg)
                  = PHA_calculateBloodPressureVariability(call.arg)

(* C18: for a present blood-pressure reading the stability score is clamp[0,1] of     *)
(* 0.5 + s + v, s being +0.3, +0.1 or -0.2 for a CV ratio below 0.1, below 0.2 or     *)
(* not, and v being +0.2, +0.1 or -0.1 for variability low, moderate or high.         *)
C18_StabilityScore ==
    (call.op = "BloodPressureStabilityModel.assess" /\ call.arg.present) =>
        LET s == IF CvBelow(call.arg, 10) THEN 30
                 ELSE IF CvBelow(call.arg, 20) THEN 10 ELSE 0 - 20
            v == IF call.result.variability = "low" THEN 20
                 ELSE IF call.result.variability = "moderate" THEN 10 ELSE 0 - 10
        IN /\ call.result.stability
                  = (IF s = 30 THEN "stable" ELSE IF s = 10 THEN "moderate" ELSE "unstable")
           /\ call.result.variability \in {"low", "moderate", "high"}
           /\ call.result.score = Max(0, Min(100, 50 + s + v))

C18_Witness ==
    /\ call.op = "BloodPressureStabilityModel.assess"
    /\ call.arg.present
    /\ call.arg.systolic = 110
    /\ call.arg.diastolic = 95
    /\ call.result.stability = "moderate"
    /\ call.result.score = 70

---------------------------------------------------------------------------
(* Properties of the outcome of an assessment: a report or a rejection *)

ReportFields == {"compositeScore", "riskStratification", "basicVitalSigns",
                 "subModelAssessments", "derivedInsights"}

\* the promise is fulfilled with a report that has every field
IsCompleteReport(r) == r.returned /\ ReportFields \subseteq DOMAIN r

\* the promise is rejected with one Error whose message ends with the message of the
\* TypeError on hd, and nothing of a report comes with it
IsSingleError(r, hd) ==
    /\ ~r.returned
    /\ "rejected" \in DOMAIN r
    /\ Len(r.errors) = 1
    /\ r.errors[1].name = "Error"
    /\ r.errors[1].cause = <<"TypeError", "bloodPressure", hd.nullish>>
    /\ DOMAIN r \cap ReportFields = {}

OutcomeAsRequired(r, hd) ==
    IF IsNullish(hd) THEN IsSingleError(r, hd) ELSE IsCompleteReport(r)

C19_WitnessEmptyReading ==
    /\ ~IsNullish(healthData)
    /\ ~healthData.bloodPressure.present
    /\ ~healthData.spO2.present
    /\ ~healthData.temperature.present
    /\ IsCompleteReport(report)
    /\ call # NoCall
    /\ IsCompleteReport(call.result)

---------------------------------------------------------------------------
(* Properties of repeated assessments on one object *)

\* the latest call was given the reading of the first call, under the same settings
SameInputAsFirst ==
    /\ call.op = "generateComprehensiveAssessment"
    /\ report.returned
    /\ healthData = call.arg
    /\ report.compositeScore.weights = call.weights

---------------------------------------------------------------------------
(* Properties of ProfessionalHealthAssessment.calculateCompositeScore *)

\* blood pressure, blood oxygen, temperature and a pulse are all given as numbers
AllFourPresent(hd) ==
    /\ ~IsNullish(hd)
    /\ hd.bloodPressure.present
    /\ IsNum(hd.bloodPressure.systolic) /\ IsNum(hd.bloodPressure.diastolic)
    /\ hd.spO2.present /\ IsNum(hd.spO2.percent) /\ IsNum(hd.spO2.pi)
    /\ hd.temperature.present /\ IsNum(hd.temperature.value)
    /\ IsNum(pulseOf(hd))

IsProfessionalReport ==
    /\ call.op = "ProfessionalHealthAssessment.generateComprehensiveAssessment"
    /\ call.result.returned

(* C26: a report of ProfessionalHealthAssessment on a reading with blood pressure,   *)
(* blood oxygen, temperature and pulse all present has confidence 100: all four      *)
(* weighted inputs (0.35, 0.25, 0.20, 0.20) entered the average.                     *)
C26_AllPresentConfidence100 ==
    (IsProfessionalReport /\ AllFourPresent(call.arg)) =>
        call.result.compositeScore.confidence = 100

---------------------------------------------------------------------------
(* The two classifications of pulse and temperature within one report *)

SameClass(a, b) == a.category = b.category /\ a.riskLevel = b.riskLevel

(* C27: in a report on a reading with temperature and pulse both present, the pulse  *)
(* of basicVitalSigns and the pulse of the temperature-pulse sub-model have the same *)
(* category and riskLevel, and so have the two temperatures.                         *)
C27_BasicAndSubModelAgree ==
    (report.returned /\ healthData.temperature.present /\ ~Falsy(pulseOf(healthData))) =>
        LET b == report.basicVitalSigns
            m == report.subModelAssessments.temperaturePulseSynergy
        IN /\ SameClass(b.pulse, m.pulse)
           /\ SameClass(b.temperature, m.temperature)

\* the temperature half of it, which the code satisfies
C27_TemperaturesAgree ==
    (report.returned /\ healthData.temperature.present /\ ~Falsy(pulseOf(healthData))) =>
        SameClass(report.basicVitalSigns.temperature,
                  report.subModelAssessments.temperaturePulseSynergy.temperature)

---------------------------------------------------------------------------
(* Properties of a report after it was returned *)

\* what a caller reads from the report r when the weights of the object are w: every
\* field is a value built by the call, except parameterSettings, which is read
\* through the reference to the settings object
ReadThrough(r, w) ==
    IF r.returned /\ r.parameterSettings = CurrentSettingsRef
    THEN [r EXCEPT !.parameterSettings = getCurrentSettings(w)]
    ELSE r

IsFirstReport ==
    /\ call.op = "generateComprehensiveAssessment"
    /\ call.result.returned

(* C21: the report returned by the first call reads the same after every later       *)
(* operation on the object (assessments, updateWeights) as when it was returned,     *)
(* compositeScore.weights and parameterSettings included.                            *)
C21_ReturnedReportUnchanged ==
    IsFirstReport => ReadThrough(call.result, weights) = ReadThrough(call.result, call.weights)

\* the part of it the code satisfies: the weights the score was computed with stay in
\* the report, updateWeights replacing the weights object instead of writing to it
C21_CompositeWeightsKept ==
    IsFirstReport =>
        ReadThrough(call.result, weights).compositeScore.weights = call.weights

---------------------------------------------------------------------------
(* The weights of one assessment object under a sequence of updateWeights calls.    *)
(* call keeps, for every key, the value of the last call that supplied it, and the   *)
(* number of calls made.                                                            *)

MaxUpdates == 3

WeightKeys == {"bloodPressureStability", "bloodOxygenPerfusion", "temperaturePulseSynergy"}

\* arguments of updateWeights: objects with any of the three keys, the empty one too
PartialWeights ==
    UNION {[K -> {0, 20, 50}] : K \in SUBSET WeightKeys}

NoUpdate == [op |-> "updateWeights", count |-> 0,
             lastSupplied |-> [k \in WeightKeys |-> Undefined]]

InitWeights ==
    /\ healthData \in RepeatReadings
    /\ weights = DefaultWeights
    /\ report = NoReport
    /\ call = NoUpdate
    /\ UiLoaded

CallUpdateWeights ==
    /\ call.count < MaxUpdates
    /\ \E newWeights \in PartialWeights :
        /\ weights' = updateWeights(weights, newWeights)
        /\ call' = [call EXCEPT
                      !.count = @ + 1,
                      !.lastSupplied = [k \in WeightKeys |->
                          IF k \in DOMAIN newWeights THEN newWeights[k] ELSE @[k]]]
        /\ UNCHANGED <<healthData, report, uiVars>>

NextWeights ==
    \/ CallUpdateWeights
    \/ GenerateComprehensiveAssessment

SpecWeights == InitWeights /\ [][NextWeights]_vars

---------------------------------------------------------------------------
(* Properties of the weights *)

\* the weight of key k after the calls recorded in c
LastSuppliedOrDefault(c, k) ==
    IF IsNum(c.lastSupplied[k]) THEN c.lastSupplied[k] ELSE DefaultWeights[k]

\* the composite score of report r is the mean of its sub-model scores under w
ScoredWith(r, w) ==
    LET W == SumOver(SubModels, w, One)
        S == SumOver(SubModels, SubScores(r), w)
    IN /\ r.compositeScore.weights = w
       /\ r.compositeScore.score = (IF W > 0 THEN (2 * S + W) \div (2 * W) ELSE 0)

(* C22: the weights start as 0.35, 0.25, 0.40; after every updateWeights call each   *)
(* weight is the value of the last call that supplied its key, or its default if     *)
(* none did, a call leaving the keys it does not supply unchanged; and every report  *)
(* produced afterwards is scored with exactly the weights then in force.             *)
C22_WeightsAreLastSupplied ==
    [][/\ \A k \in WeightKeys : weights'[k] = LastSuppliedOrDefault(call', k)
       /\ DOMAIN weights' = WeightKeys
       /\ report' # report => ScoredWith(report', weights)]_vars

C22_Witness ==
    /\ call.count >= 2
    /\ IsNum(call.lastSupplied["bloodPressureStability"])
    /\ ~IsNum(call.lastSupplied["temperaturePulseSynergy"])
    /\ weights["bloodPressureStability"] = 50
    /\ weights["temperaturePulseSynergy"] = 40
    /\ report.returned
    /\ ScoredWith(report, weights)
    /\ report.compositeScore.score > 0

---------------------------------------------------------------------------
(* The chart registry of src/unnamed/part_001.  charts holds the Chart objects      *)
(* constructed and not destroyed, each with its canvas; chartInstances maps a key   *)
(* to a Chart, or to Destroyed when the Chart it references was destroyed.          *)

MaxCharts == 6

\* the canvases of the page; renderChart is also called for a chart whose canvas the
\* page does not have
CanvasesInPage == ChartIds
RenderIds == ChartIds \cup {"report-hrv-trend-chart"}
FullscreenCanvas == "chart-fullscreen-canvas"

\* a reference to a Chart that was destroyed
Destroyed == 0 - 1

IsLive(c) == c \notin {Null, Destroyed}

\* the state of the registry as one value
ChartState == [chartInstances |-> chartInstances, charts |-> charts,
               fullscreenClose |-> fullscreenClose]

SetChartState(cs) ==
    /\ chartInstances' = cs.chartInstances
    /\ charts' = cs.charts
    /\ fullscreenClose' = cs.fullscreenClose

Lookup(cs, key) == IF key \in DOMAIN cs.chartInstances THEN cs.chartInstances[key] ELSE Null

NewChartId(cs) ==
    CHOOSE i \in 1..(MaxCharts + 1) :
        i \notin DOMAIN cs.charts /\ \A j \in 1..(i - 1) : j \in DOMAIN cs.charts

CanvasInUse(cs, canvas) == \E i \in DOMAIN cs.charts : cs.charts[i] = canvas

\* what new Chart(canvas) can do: on a canvas that has a live chart the library either
\* throws (Chart.js 3 and later: 'Canvas is already in use') or constructs a second
\* chart on it (Chart.js 2); the source does not fix the library version
ConstructorThrows(cs, canvas) == IF CanvasInUse(cs, canvas) THEN {TRUE, FALSE} ELSE {FALSE}

\* chart.destroy(); every reference to the chart then references a destroyed chart
destroy(cs, c) ==
    IF ~IsLive(c) THEN cs
    ELSE [chartInstances |-> [k \in DOMAIN cs.chartInstances |->
                                 IF cs.chartInstances[k] = c THEN Destroyed
                                 ELSE cs.chartInstances[k]],
          charts |-> [i \in DOMAIN cs.charts \ {c} |-> cs.charts[i]],
          fullscreenClose |-> IF cs.fullscreenClose = c THEN Destroyed
                              ELSE cs.fullscreenClose]

\* chartInstances[key] = chart
Register(cs, key, c) ==
    [cs EXCEPT !.chartInstances =
        [k \in DOMAIN cs.chartInstances \cup {key} |->
            IF k = key THEN c ELSE cs.chartInstances[k]]]

Construct(cs, canvas) ==
    [cs EXCEPT !.charts = [i \in DOMAIN cs.charts \cup {NewChartId(cs)} |->
                              IF i = NewChartId(cs) THEN canvas ELSE cs.charts[i]]]

\* throws: whether new Chart throws
renderChart(cs, chartId, throws) ==
    IF chartId \notin CanvasesInPage THEN cs
    ELSE LET cleared == IF Lookup(cs, chartId) # Null
                        THEN destroy(cs, Lookup(cs, chartId)) ELSE cs
         IN IF throws THEN cleared
            ELSE Register(Construct(cleared, chartId), chartId, NewChartId(cleared))

\* the seven render functions, of which the page has the canvases of ChartIds; no
\* canvas is in use when its chart was destroyed, so no constructor throws
renderAllReportCharts(cs) ==
    LET bp == renderChart(cs, "report-blood-pressure-chart", FALSE)
        bs == renderChart(bp, "report-blood-sugar-chart", FALSE)
        hr == renderChart(bs, "report-heart-rate-chart", FALSE)
    IN renderChart(hr, "report-hrv-trend-chart", FALSE)

\* the fullscreen chart is registered under '__fullscreen' and captured by the onclick
\* of the close button, which replaces the onclick set before
openFullscreenChart(cs, chartId, throws) ==
    IF Lookup(cs, chartId) = Null THEN cs
    ELSE IF throws THEN cs
    ELSE LET made == Construct(cs, FullscreenCanvas)
         IN [Register(made, FullscreenKey, NewChartId(cs))
                EXCEPT !.fullscreenClose = NewChartId(cs)]

\* the onclick of the close button: fullscreenChart.destroy();
\* delete chartInstances['__fullscreen']
closeFullscreen(cs) ==
    IF cs.fullscreenClose = Null THEN cs
    ELSE LET gone == destroy(cs, cs.fullscreenClose)
         IN [gone EXCEPT !.chartInstances =
                [k \in DOMAIN gone.chartInstances \ {FullscreenKey} |->
                    gone.chartInstances[k]]]

LiveCount(cs) == Cardinality(DOMAIN cs.charts)

AssessIdle ==
    /\ healthData = [bloodPressure |-> NoBloodPressure, spO2 |-> NoSpO2,
                     temperature |-> NoTemperature]
    /\ weights = DefaultWeights
    /\ report = NoReport
    /\ call = NoCall

InitCharts == AssessIdle /\ UiLoaded

RenderChart ==
    \E chartId \in RenderIds :
        \E throws \in ConstructorThrows(
                IF Lookup(ChartState, chartId) # Null
                THEN destroy(ChartState, Lookup(ChartState, chartId)) ELSE ChartState,
                chartId) :
            /\ LiveCount(renderChart(ChartState, chartId, throws)) <= MaxCharts
            /\ SetChartState(renderChart(ChartState, chartId, throws))
            /\ UNCHANGED <<assessVars, proxyVars, chatVars, playbackVars>>

OpenFullscreenChart ==
    \E chartId \in RenderIds \cup {FullscreenKey} :
        \E throws \in ConstructorThrows(ChartState, FullscreenCanvas) :
            /\ LiveCount(openFullscreenChart(ChartState, chartId, throws)) <= MaxCharts
            /\ SetChartState(openFullscreenChart(ChartState, chartId, throws))
            /\ UNCHANGED <<assessVars, proxyVars, chatVars, playbackVars>>

ClickFullscreenClose ==
    /\ SetChartState(closeFullscreen(ChartState))
    /\ UNCHANGED <<assessVars, proxyVars, chatVars, playbackVars>>

NextCharts ==
    \/ RenderChart
    \/ OpenFullscreenChart
    \/ ClickFullscreenClose

SpecCharts == InitCharts /\ [][NextCharts]_vars

---------------------------------------------------------------------------
(* Properties of the chart registry *)

Referenced(c) == \E k \in DOMAIN chartInstances : chartInstances[k] = c

C28_RenderedChartsReferenced ==
    \A c \in DOMAIN charts : charts[c] # FullscreenCanvas => Referenced(c)

---------------------------------------------------------------------------
(* The timeline playback of src/unnamed/part_001, after initTimelinePlayback bound   *)
(* its handlers.  timers holds the interval timers that are active; the callback of  *)
(* every one of them is the callback of startPlayback.                               *)

MaxIndex == 92
MaxTimers == 3

\* the periods of the report (setReportDays: 7|30|90) and the playback speeds
ReportPeriods == {7, 30, 90}
Speeds == {1, 2, 4}

\* a click on the progress bar at k / SeekSteps of its width
SeekSteps == 4

\* the playback as one value
PlaybackOf(ps, ts) == [playbackState |-> ps, timers |-> ts]
Playback == PlaybackOf(playbackState, timers)

SetPlayback(pb) ==
    /\ playbackState' = pb.playbackState
    /\ timers' = pb.timers

\* setInterval returns the identity of a new timer
setInterval(ts) == CHOOSE i \in 1..(MaxTimers + 1) : i \notin ts

\* stopPlayback with the timer left running: isPlaying and interval are reset, the
\* clearInterval call is missing
stopPlaybackWithoutClear(pb) ==
    [pb EXCEPT !.playbackState.isPlaying = FALSE, !.playbackState.interval = Null]

stopPlayback(pb) ==
    [playbackState |-> [pb.playbackState EXCEPT !.isPlaying = FALSE, !.interval = Null],
     timers |-> IF pb.playbackState.interval # Null
                THEN pb.timers \ {pb.playbackState.interval} ELSE pb.timers]

startPlayback(pb) ==
    IF pb.playbackState.isPlaying THEN pb
    ELSE [playbackState |-> [pb.playbackState EXCEPT !.isPlaying = TRUE,
                                                      !.interval = setInterval(pb.timers)],
          timers |-> pb.timers \cup {setInterval(pb.timers)}]

resetPlayback(pb) ==
    [stopPlayback(pb) EXCEPT !.playbackState.currentIndex = 0]

\* the callback of the interval: currentIndex++, then stopPlayback at the end
intervalCallback(pb, days) ==
    LET stepped == [pb EXCEPT !.playbackState.currentIndex = @ + 1]
    IN IF stepped.playbackState.currentIndex >= days THEN stopPlayback(stepped)
       ELSE stepped

\* Math.max(0, Math.min(Math.floor(percentage * (reportDays - 1)), reportDays - 1))
seekIndex(k, days) == Max(0, Min((k * (days - 1)) \div SeekSteps, days - 1))

InitPlayback == AssessIdle /\ UiLoaded

ClickPlay ==
    /\ SetPlayback(IF playbackState.isPlaying THEN stopPlayback(Playback)
                   ELSE startPlayback(Playback))
    /\ UNCHANGED <<assessVars, proxyVars, chatVars, chartVars, reportDays>>

ChangeSpeed ==
    \E speed \in Speeds :
        LET pb == [Playback EXCEPT !.playbackState.speed = speed]
        IN /\ SetPlayback(IF playbackState.isPlaying THEN startPlayback(stopPlayback(pb))
                          ELSE pb)
           /\ UNCHANGED <<assessVars, proxyVars, chatVars, chartVars, reportDays>>

ClickProgressBar ==
    \E k \in 0..SeekSteps :
        /\ SetPlayback([Playback EXCEPT
                           !.playbackState.currentIndex = seekIndex(k, reportDays)])
        /\ UNCHANGED <<assessVars, proxyVars, chatVars, chartVars, reportDays>>

\* the change event of #report-period-select: resetPlayback
ChangePeriod ==
    /\ SetPlayback(resetPlayback(Playback))
    /\ UNCHANGED <<assessVars, proxyVars, chatVars, chartVars, reportDays>>

\* Number(days) || 7, then the report charts are rendered again
SetReportDays ==
    \E days \in ReportPeriods :
        /\ reportDays' = days
        /\ SetChartState(renderAllReportCharts(ChartState))
        /\ UNCHANGED <<assessVars, proxyVars, chatVars, playbackState, timers>>

\* an active timer fires
TimerTick ==
    /\ playbackState.currentIndex < MaxIndex
    /\ \E t \in timers :
        /\ SetPlayback(intervalCallback(Playback, reportDays))
        /\ UNCHANGED <<assessVars, proxyVars, chatVars, chartVars, reportDays>>

NextPlayback ==
    \/ ClickPlay
    \/ ChangeSpeed
    \/ ClickProgressBar
    \/ ChangePeriod
    \/ SetReportDays
    \/ TimerTick

SpecPlayback == InitPlayback /\ [][NextPlayback]_vars

---------------------------------------------------------------------------
(* Properties of the playback *)

(* C29: at most one interval timer is active, and playbackState.isPlaying is true     *)
(* exactly when playbackState.interval holds an active timer; no timer is active     *)
(* while the playback is stopped.                                                    *)
C29_OneTimerWhilePlaying ==
    /\ Cardinality(timers) <= 1
    /\ playbackState.isPlaying <=> playbackState.interval \in timers
    /\ ~playbackState.isPlaying => timers = {}

\* the playback was started, ran, and was stopped by its own callback at the end of
\* the period, at a speed other than the initial one
C29_Witness ==
    /\ ~playbackState.isPlaying
    /\ playbackState.currentIndex >= reportDays
    /\ playbackState.speed # 1
    /\ timers = {}

(* C30: playbackState.currentIndex stays within 0..reportDays-1, the indices of      *)
(* the chart data, after any sequence of play clicks, timer ticks, clicks on the     *)
(* progress bar and report-period changes.                                           *)
C30_IndexWithinPeriod ==
    playbackState.currentIndex \in 0..(reportDays - 1)

\* the part of it the code satisfies: a click on the progress bar puts the index in
\* the range
C30_SeekWithinPeriod ==
    [][ClickProgressBar => playbackState'.currentIndex \in 0..(reportDays - 1)]_vars

---------------------------------------------------------------------------
(* ProfessionalVisualization: the functions that prepare the series of a chart.     *)
(* A record list is a sequence of readings with a timestamp; temperatures are in     *)
(* tenths.  Only the labels and the data of the datasets are kept, not the styling.  *)
(* The label of a dataset is the name of its quantity (systolic for '收縮壓').       *)

MaxRecords == 2

\* null as an entry of a data sequence, where the other entries are numbers
NullSample == 0 - 2

\* x || null and x || 0
OrNull(x) == IF Falsy(x) THEN NullSample ELSE x
OrZero(x) == IF Falsy(x) THEN 0 ELSE x

\* data.map(item => ...), written out per function below
Indices(data) == 1..Len(data)

prepareDualAxisData(data) ==
    [labels |-> [i \in Indices(data) |-> data[i].timestamp],
     datasets |->
        <<[label |-> "systolic",
           data |-> [i \in Indices(data) |-> OrNull(data[i].bloodPressure.systolic)]],
          [label |-> "diastolic",
           data |-> [i \in Indices(data) |-> OrNull(data[i].bloodPressure.diastolic)]],
          [label |-> "pulse",
           data |-> [i \in Indices(data) |->
                        IF ~Falsy(data[i].bloodPressure.pulse)
                        THEN data[i].bloodPressure.pulse
                        ELSE OrNull(data[i].spO2.pr)]]>>]

prepareBloodOxygenData(data) ==
    [labels |-> [i \in Indices(data) |-> data[i].timestamp],
     datasets |->
        <<[label |-> "percent",
           data |-> [i \in Indices(data) |-> OrNull(data[i].spO2.percent)]],
          [label |-> "pi",
           data |-> [i \in Indices(data) |-> OrNull(data[i].spO2.pi)]]>>]

prepareTemperatureData(data) ==
    [labels |-> [i \in Indices(data) |-> data[i].timestamp],
     datasets |->
        <<[label |-> "temperature",
           data |-> [i \in Indices(data) |-> OrNull(data[i].temperature.value)]]>>]

\* the five quantities of the stacked bar chart, in the order of its labels
Quantities == <<"systolic", "diastolic", "pulse", "percent", "temperature">>

\* the value of a quantity in a record, with x || 0 for a missing one
ValueOrZero(item, q) ==
    CASE q = "systolic"    -> OrZero(item.bloodPressure.systolic)
      [] q = "diastolic"   -> OrZero(item.bloodPressure.diastolic)
      [] q = "pulse"       -> IF ~Falsy(item.bloodPressure.pulse)
                              THEN item.bloodPressure.pulse ELSE OrZero(item.spO2.pr)
      [] q = "percent"     -> OrZero(item.spO2.percent)
      [] q = "temperature" -> OrZero(item.temperature.value)

extractCurrentValues(data) ==
    IF Len(data) = 0 THEN <<0, 0, 0, 0, 0>>
    ELSE [j \in 1..5 |-> ValueOrZero(data[Len(data)], Quantities[j])]

\* normal systolic and diastolic, the middle of the normal pulse range, the normal
\* SpO2, the middle of the axillary range (36.6)
getStandardValues == <<120, 80, (60 + 100) \div 2, 95, (360 + 372) \div 2>>

\* Math.max(...values)
MaxOf(values) == CHOOSE v \in {values[i] : i \in DOMAIN values} :
                     \A i \in DOMAIN values : values[i] <= v

getHistoricalPeaks(data) ==
    IF Len(data) = 0 THEN <<0, 0, 0, 0, 0>>
    ELSE [j \in 1..5 |-> MaxOf([i \in Indices(data) |-> ValueOrZero(data[i], Quantities[j])])]

prepareStackedBarData(data) ==
    [labels |-> Quantities,
     datasets |-> <<[label |-> "current", data |-> extractCurrentValues(data)],
                    [label |-> "standard", data |-> getStandardValues],
                    [label |-> "peak", data |-> getHistoricalPeaks(data)]>>]

\* the records of a list: every substructure absent or present, a field of a present
\* one missing, a perfusion index of 0
SeriesBloodPressures ==
    {NoBloodPressure,
     [present |-> TRUE, systolic |-> 120, diastolic |-> 80, pulse |-> 72],
     [present |-> TRUE, systolic |-> Undefined, diastolic |-> 85, pulse |-> Undefined]}
SeriesSpO2s ==
    {NoSpO2,
     [present |-> TRUE, percent |-> 97, pi |-> 12, pr |-> 70],
     [present |-> TRUE, percent |-> 93, pi |-> 0, pr |-> Undefined]}
SeriesTemperatures ==
    {NoTemperature, [present |-> TRUE, value |-> 365, location |-> "axillary"]}
SeriesRecords ==
    [timestamp : {"day-1", "day-2"}, bloodPressure : SeriesBloodPressures,
     spO2 : SeriesSpO2s, temperature : SeriesTemperatures]
RecordLists == UNION {[1..n -> SeriesRecords] : n \in 0..MaxRecords}

InitPrepare == AssessIdle /\ UiLoaded

CallPrepareDualAxisData ==
    /\ call = NoCall
    /\ \E data \in RecordLists :
        /\ call' = [op |-> "prepareDualAxisData", arg |-> data,
                    result |-> prepareDualAxisData(data)]
        /\ UNCHANGED <<healthData, weights, report, uiVars>>

CallPrepareBloodOxygenData ==
    /\ call = NoCall
    /\ \E data \in RecordLists :
        /\ call' = [op |-> "prepareBloodOxygenData", arg |-> data,
                    result |-> prepareBloodOxygenData(data)]
        /\ UNCHANGED <<healthData, weights, report, uiVars>>

CallPrepareTemperatureData ==
    /\ call = NoCall
    /\ \E data \in RecordLists :
        /\ call' = [op |-> "prepareTemperatureData", arg |-> data,
                    result |-> prepareTemperatureData(data)]
        /\ UNCHANGED <<healthData, weights, report, uiVars>>

CallPrepareStackedBarData ==
    /\ call = NoCall
    /\ \E data \in RecordLists :
        /\ call' = [op |-> "prepareStackedBarData", arg |-> data,
                    result |-> prepareStackedBarData(data)]
        /\ UNCHANGED <<healthData, weights, report, uiVars>>

NextPrepare ==
    \/ CallPrepareDualAxisData
    \/ CallPrepareBloodOxygenData
    \/ CallPrepareTemperatureData
    \/ CallPrepareStackedBarData

SpecPrepare == InitPrepare /\ [][NextPrepare]_vars

---------------------------------------------------------------------------
(* Properties of the prepared series *)

\* the sample of a quantity in a record, Undefined when the record has none
SampleOf(item, q) ==
    CASE q = "systolic"    -> item.bloodPressure.systolic
      [] q = "diastolic"   -> item.bloodPressure.diastolic
      [] q = "pulse"       -> IF IsNum(item.bloodPressure.pulse)
                              THEN item.bloodPressure.pulse ELSE item.spO2.pr
      [] q = "percent"     -> item.spO2.percent
      [] q = "pi"          -> item.spO2.pi
      [] q = "temperature" -> item.temperature.value

\* entry stands for the sample: null for a missing sample, the sample itself for a
\* sample other than 0
StandsFor(entry, sample) ==
    /\ ~IsNum(sample) => entry = NullSample
    /\ (IsNum(sample) /\ sample # 0) => entry = sample

\* a time series: one label and one entry per record, in the order of the records
IsSeriesOf(r, data) ==
    /\ Len(r.labels) = Len(data)
    /\ \A i \in Indices(data) : r.labels[i] = data[i].timestamp
    /\ \A d \in DOMAIN r.datasets :
        /\ Len(r.datasets[d].data) = Len(r.labels)
        /\ \A i \in Indices(data) :
               StandsFor(r.datasets[d].data[i], SampleOf(data[i], r.datasets[d].label))

\* the stacked bars: one entry per label, the entry of the current values standing for
\* the sample of the latest record
IsBarsOf(r, data) ==
    /\ \A d \in DOMAIN r.datasets : Len(r.datasets[d].data) = Len(r.labels)
    /\ Len(data) > 0 =>
           \A j \in DOMAIN r.labels :
               StandsFor(r.datasets[1].data[j], SampleOf(data[Len(data)], r.labels[j]))

IsSeriesCall ==
    call.op \in {"prepareDualAxisData", "prepareBloodOxygenData", "prepareTemperatureData"}

(* C25: the data sequences returned by prepareDualAxisData, prepareBloodOxygenData,  *)
(* prepareTemperatureData and prepareStackedBarData have the length and the order    *)
(* of the labels, and hold null, never 0, for a sample missing from the input.       *)
C25_MissingSampleIsNull ==
    /\ IsSeriesCall => IsSeriesOf(call.result, call.arg)
    /\ call.op = "prepareStackedBarData" => IsBarsOf(call.result, call.arg)

\* the part of it the code satisfies: the three time series
C25_TimeSeriesMissingIsNull ==
    IsSeriesCall => IsSeriesOf(call.result, call.arg)

\* and the lengths of the stacked bars
C25_BarsHaveLabelLength ==
    call.op = "prepareStackedBarData" =>
        \A d \in DOMAIN call.result.datasets :
            Len(call.result.datasets[d].data) = Len(call.result.labels)

---------------------------------------------------------------------------
(* The chat proxy of src/unnamed/part_000: express.json() and the handler of        *)
(* POST /api/chat.  requests holds the requests received, each with the upstream     *)
(* calls made and the responses sent for it.  A JSON value is written as its         *)
(* serialisation without white space.                                               *)

MaxRequests == 2

\* the texts a client sends as the body of its request
RawBodies == {"{\"model\":\"chat\"}", "{ \"model\" : \"chat\" }", "{\"model\":",
              "\"hello\"", ""}
ContentTypes == {"application/json", "text/plain"}
Authorizations == {"Bearer sk-1", Undef}

SyntaxError == "SyntaxError"
EmptyObject == "{}"

\* JSON.parse, to the value written without white space
JSONparse(text) ==
    CASE text = "{\"model\":\"chat\"}"     -> "{\"model\":\"chat\"}"
      [] text = "{ \"model\" : \"chat\" }" -> "{\"model\":\"chat\"}"
      [] text = "[1]"                      -> "[1]"
      [] text = "\"hello\""                -> "\"hello\""
      [] text = "{}"                       -> "{}"
      [] OTHER                             -> SyntaxError

\* JSON.stringify of a value
JSONstringify(value) == value

\* the strict mode of express.json() accepts objects and arrays only
IsObjectOrArray(text) == text \in {"{\"model\":\"chat\"}", "{ \"model\" : \"chat\" }", "[1]"}

\* express.json(): req.body, or BadRequest when the middleware answers 400 itself.  A
\* body that is empty or of another content type is not read: req.body is {}
BadRequest == "400 Bad Request"
expressJson(contentType, rawBody) ==
    IF contentType # "application/json" \/ rawBody = "" THEN EmptyObject
    ELSE IF ~IsObjectOrArray(rawBody) \/ JSONparse(rawBody) = SyntaxError THEN BadRequest
    ELSE JSONparse(rawBody)

\* what the upstream call comes to: a response of status 2xx, the rejection by a
\* response of another status, or no response at all (error.message)
UpstreamData == {"{\"choices\":[1]}", "[]"}
UpstreamErrors == {"{\"error\":\"rate limit\"}"}
Outcomes ==
    [kind : {"resolved"}, status : {200}, data : UpstreamData]
    \cup [kind : {"rejected"}, status : {401, 429}, data : UpstreamErrors]
    \cup [kind : {"failed"}, status : {0}, data : {"ECONNREFUSED"}]
NoOutcome == [kind |-> "pending", status |-> 0, data |-> Undef]

ProxyMessage == "Error proxying to DeepSeek API"

\* the status of every failure 500
errorStatusAlways500(outcome) == 500

\* error.response ? error.response.status : 500
errorStatus(outcome) == IF outcome.kind = "rejected" THEN outcome.status ELSE 500

\* res.json(response.data) or res.status(...).json({message, error})
responseTo(outcome) ==
    IF outcome.kind = "resolved"
    THEN [status |-> 200, message |-> Undef, payload |-> outcome.data]
    ELSE [status |-> errorStatus(outcome), message |-> ProxyMessage,
          payload |-> outcome.data]

\* the answer of the default error handler to the error of express.json()
BadRequestResponse == [status |-> 400, message |-> Undef, payload |-> BadRequest]

InitProxy == AssessIdle /\ UiLoaded

\* a request arrives: express.json() reads the body, then the handler posts it
\* upstream and awaits the outcome
ReceivePost ==
    /\ Len(requests) < MaxRequests
    /\ \E contentType \in ContentTypes, rawBody \in RawBodies,
          authorization \in Authorizations :
        LET body == expressJson(contentType, rawBody)
            req == [contentType |-> contentType, rawBody |-> rawBody,
                    authorization |-> authorization]
        IN /\ requests' = Append(requests,
                  IF body = BadRequest
                  THEN [req |-> req, pc |-> "done", upstreamCalls |-> <<>>,
                        outcome |-> NoOutcome, responses |-> <<BadRequestResponse>>]
                  ELSE [req |-> req, pc |-> "awaiting",
                        upstreamCalls |-> <<[body |-> JSONstringify(body),
                                             authorization |-> authorization]>>,
                        outcome |-> NoOutcome, responses |-> <<>>])
           /\ UNCHANGED <<assessVars, chatVars, chartVars, playbackVars>>

\* the upstream call of a request settles: the handler sends its response
UpstreamSettles ==
    \E i \in DOMAIN requests :
        /\ requests[i].pc = "awaiting"
        /\ \E outcome \in Outcomes :
            /\ requests' = [requests EXCEPT ![i].pc = "done", ![i].outcome = outcome,
                               ![i].responses = Append(@, responseTo(outcome))]
            /\ UNCHANGED <<assessVars, chatVars, chartVars, playbackVars>>

NextProxy ==
    \/ ReceivePost
    \/ UpstreamSettles

SpecProxy == InitProxy /\ [][NextProxy]_vars

---------------------------------------------------------------------------
(* Properties of the proxy *)

\* the body carries the JSON value of the request body
CarriesBody(upstreamCall, req) ==
    /\ JSONparse(req.rawBody) # SyntaxError
    /\ JSONparse(upstreamCall.body) = JSONparse(req.rawBody)

\* one upstream call with the body and the Authorization header of the request
OneUpstreamCall(r) ==
    /\ Len(r.upstreamCalls) = 1
    /\ CarriesBody(r.upstreamCalls[1], r.req)
    /\ r.upstreamCalls[1].authorization = r.req.authorization

\* one response: the upstream body, or {message, error} with the upstream status, or
\* with 500 when there was no upstream response
OneResponse(r) ==
    /\ Len(r.responses) = 1
    /\ r.outcome.kind = "resolved" =>
           r.responses[1] = [status |-> 200, message |-> Undef, payload |-> r.outcome.data]
    /\ r.outcome.kind = "rejected" =>
           r.responses[1] = [status |-> r.outcome.status, message |-> ProxyMessage,
                             payload |-> r.outcome.data]
    /\ r.outcome.kind = "failed" =>
           r.responses[1] = [status |-> 500, message |-> ProxyMessage,
                             payload |-> r.outcome.data]
    /\ r.outcome.kind \in {"resolved", "rejected", "failed"}

Forwarded(r) ==
    /\ OneUpstreamCall(r)
    /\ IF r.pc = "done" THEN OneResponse(r) ELSE r.responses = <<>>

\* express.json() reads the body of the request as a JSON object or array
IsJsonRequest(req) ==
    /\ req.contentType = "application/json"
    /\ IsObjectOrArray(req.rawBody)
    /\ JSONparse(req.rawBody) # SyntaxError

---------------------------------------------------------------------------
(* The chat modal of src/scientific_health_assessment.js.  A modal is its index in   *)
(* chatBoxes, which holds for every modal created whether it is attached to the      *)
(* page and the messages of its chat box.  sends holds the sendMessage calls.        *)

MaxModals == 3
MaxSends == 2

\* the trimmed text of the input field
Messages == {"", "question"}

\* what the request to the relay comes to: a response whose body is the expected
\* JSON, a response whose body is not, a response of a status other than 2xx, or no
\* response (fetch rejects)
FetchOutcomes == {"ok", "ok_bad_body", "http_error", "network_error"}
RelayFailures == {"http_error", "network_error"}

\* element.remove(): the message is taken out of every chat box it is in
RemoveMessage(boxes, m) ==
    [b \in DOMAIN boxes |->
        [boxes[b] EXCEPT !.messages = SelectSeq(@, LAMBDA x : x # m)]]

\* appendMessage(text, sender) of call s, when modal is the current modal
AppendTo(boxes, modal, m) ==
    [boxes EXCEPT ![modal].messages = Append(@, m)]

TypingIndicator(s) == [sender |-> "ai-typing", send |-> s]
ErrorMessage(s) == [sender |-> "ai-error", send |-> s]

\* the catch block of call s: typingIndicator.remove(), then appendMessage of the
\* error message, which reads currentChatModal.querySelector and so throws a
\* TypeError when no modal is open
catchBlock(boxes, current, s) ==
    LET removed == RemoveMessage(boxes, TypingIndicator(s))
    IN IF current = Null
       THEN [chatBoxes |-> removed, shownIn |-> Null, threw |-> TRUE]
       ELSE [chatBoxes |-> AppendTo(removed, current, ErrorMessage(s)),
             shownIn |-> current, threw |-> FALSE]

InitChat == AssessIdle /\ UiLoaded

OpenChatModal ==
    /\ Len(chatBoxes) < MaxModals
    /\ LET detached == IF currentChatModal # Null
                       THEN [chatBoxes EXCEPT ![currentChatModal].attached = FALSE]
                       ELSE chatBoxes
       IN chatBoxes' = Append(detached, [attached |-> TRUE, messages |-> <<>>])
    /\ currentChatModal' = Len(chatBoxes) + 1
    /\ UNCHANGED <<assessVars, proxyVars, chartVars, playbackVars, sends>>

\* the click on the close button of the modal shown
CloseChatModal ==
    /\ currentChatModal # Null
    /\ chatBoxes' = [chatBoxes EXCEPT ![currentChatModal].attached = FALSE]
    /\ currentChatModal' = Null
    /\ UNCHANGED <<assessVars, proxyVars, chartVars, playbackVars, sends>>

\* the click on the send button, or Enter, of the modal shown: up to the await of fetch
SendMessage ==
    /\ currentChatModal # Null
    /\ Len(sends) < MaxSends
    /\ \E message \in Messages :
        IF message = ""
        THEN UNCHANGED vars
        ELSE LET s == Len(sends) + 1
             IN /\ chatBoxes' = AppendTo(AppendTo(chatBoxes, currentChatModal,
                                                  [sender |-> "user", send |-> s]),
                                         currentChatModal, TypingIndicator(s))
                /\ sends' = Append(sends, [modal |-> currentChatModal,
                                           pc |-> "awaiting_fetch", fetches |-> 1,
                                           outcome |-> "pending", shownIn |-> Null,
                                           threw |-> FALSE])
                /\ UNCHANGED <<assessVars, proxyVars, chartVars, playbackVars,
                               currentChatModal>>

\* the fetch of a call settles; a failure runs the catch block
FetchSettles ==
    \E s \in DOMAIN sends :
        /\ sends[s].pc = "awaiting_fetch"
        /\ \E outcome \in FetchOutcomes :
            IF outcome \in RelayFailures
            THEN LET caught == catchBlock(chatBoxes, currentChatModal, s)
                 IN /\ chatBoxes' = caught.chatBoxes
                    /\ sends' = [sends EXCEPT ![s].pc = "done", ![s].outcome = outcome,
                                    ![s].shownIn = caught.shownIn,
                                    ![s].threw = caught.threw]
            ELSE /\ sends' = [sends EXCEPT ![s].pc = "awaiting_json",
                                 ![s].outcome = outcome]
                 /\ UNCHANGED chatBoxes
        /\ UNCHANGED <<assessVars, proxyVars, chartVars, playbackVars, currentChatModal>>

\* response.json() of a call settles: the answer is appended in place of the typing
\* indicator; a body without the answer, or no modal to append to, runs the catch block
JsonSettles ==
    \E s \in DOMAIN sends :
        /\ sends[s].pc = "awaiting_json"
        /\ LET removed == RemoveMessage(chatBoxes, TypingIndicator(s))
               caught == catchBlock(chatBoxes, currentChatModal, s)
           IN IF sends[s].outcome = "ok" /\ currentChatModal # Null
              THEN /\ chatBoxes' = AppendTo(removed, currentChatModal,
                                            [sender |-> "ai", send |-> s])
                   /\ sends' = [sends EXCEPT ![s].pc = "done"]
              ELSE /\ chatBoxes' = caught.chatBoxes
                   /\ sends' = [sends EXCEPT ![s].pc = "done",
                                   ![s].shownIn = caught.shownIn,
                                   ![s].threw = caught.threw]
        /\ UNCHANGED <<assessVars, proxyVars, chartVars, playbackVars, currentChatModal>>

NextChat ==
    \/ OpenChatModal
    \/ CloseChatModal
    \/ SendMessage
    \/ FetchSettles
    \/ JsonSettles

SpecChat == InitChat /\ [][NextChat]_vars

---------------------------------------------------------------------------
(* Properties of the chat *)

RelayFailed(s) == sends[s].pc = "done" /\ sends[s].outcome \in RelayFailures

InSomeBox(m) ==
    \E b \in DOMAIN chatBoxes :
        \E i \in DOMAIN chatBoxes[b].messages : chatBoxes[b].messages[i] = m

\* the error message of call s was appended to the chat box of a modal on display
ErrorShown(s) ==
    /\ sends[s].shownIn # Null
    /\ ~sends[s].threw

(* C24: every send whose relay request failed (network error or status other than    *)
(* 2xx) has ended with its error message in the chat box shown and its typing        *)
(* indicator removed, after one request, whatever the user did with the modal while  *)
(* the request was pending.                                                          *)
C24_FailedSendShowsError ==
    \A s \in DOMAIN sends :
        RelayFailed(s) =>
            /\ ErrorShown(s)
            /\ ~InSomeBox(TypingIndicator(s))
            /\ sends[s].fetches = 1

\* the part of it the code satisfies: the typing indicator is removed and the request
\* is made once; the error message is missing only when no modal was open at the time
\* the request failed, appendMessage then throwing a TypeError
C24_IndicatorRemovedNoRetry ==
    \A s \in DOMAIN sends :
        sends[s].pc = "done" =>
            /\ ~InSomeBox(TypingIndicator(s))
            /\ sends[s].fetches = 1
            /\ RelayFailed(s) => (ErrorShown(s) \/ sends[s].threw)

===========================================================================
